---- MODULE Spec2Model ----
(***************************************************************************)
(* Flux estimation engine of Hidrologia-Termocuplas-BH: the five vertical  *)
(* flux methods of src/src/vflux_methods.py, the aggregator                *)
(* calculate_vflux_all_methods and the forward phase model of              *)
(* generate_synthetic_data.py.                                             *)
(*                                                                         *)
(* Numbers.  The program computes in IEEE double precision.  Here a real   *)
(* x is the integer round(x * Scale), Scale = 10^6, and every arithmetic   *)
(* operation rounds its exact result to the nearest representable value,   *)
(* as the floating-point operation does.  The integers of the model        *)
(* checker are 32 bits wide, so products and quotients are computed in     *)
(* halves (MulFloor, LongDiv); every value and intermediate result of the  *)
(* inputs below stays under 2147 in magnitude.  Where a statement turns on  *)
(* the last bit of a float (the order and the sign of the quotients of     *)
(* calculate_thermal_diffusivity), the floats are taken exactly instead:   *)
(* see float_div.                                                          *)
(*                                                                         *)
(* Units.  The flux equations are dimensionally homogeneous, so the        *)
(* sediment of the repository (lambda = 2.0 W/m/K, Cs = 2.5e6, Cw = 4.18e6 *)
(* J/m3/K, omega = 2 pi / 86400 rad/s, dz = 0.10 m) is written in          *)
(* decimetres, days and units of 1e6 J/m3/K: lambda = 17.28, Cs = 2.5,     *)
(* Cw = 4.18, omega = 2 pi, dz = 1, and 5 mm/day is 0.05 dm/day.  The same *)
(* numbers passed to the Python functions give the same results.           *)
(***************************************************************************)
EXTENDS Integers, FiniteSets, Sequences

(***************************************************************************)
(* Fixed-point arithmetic standing for the float operations of the code.   *)
(***************************************************************************)
Kilo == 10 ^ 3
Scale == Kilo * Kilo

Abs(x) == IF x < 0 THEN -x ELSE x
Sgn(x) == IF x < 0 THEN -1 ELSE IF x > 0 THEN 1 ELSE 0

\* floor(a * b / Scale) for a, b >= 0, exact, without a product over 2^31.
MulFloor(a, b) ==
    LET ah == a \div Kilo
        al == a % Kilo
        bh == b \div Kilo
        bl == b % Kilo
        m  == ah * bl + al * bh
    IN  ah * bh + (m + (al * bl) \div Kilo) \div Kilo

\* round(a * b / Scale) for a, b >= 0.
MulAbs(a, b) ==
    LET ah == a \div Kilo
        al == a % Kilo
        bh == b \div Kilo
        bl == b % Kilo
        m  == ah * bl + al * bh
        r  == al * bl + Scale \div 2
    IN  ah * bh + (m + r \div Kilo) \div Kilo

\* The float product a * b.
Mul(a, b) == Sgn(a) * Sgn(b) * MulAbs(Abs(a), Abs(b))

\* Decimal long division: the n further digits of r / b (0 <= r < b) and the
\* rounding of the last one.
RECURSIVE LongDiv(_, _, _)
LongDiv(r, b, n) ==
    IF n = 0
    THEN (IF 2 * r >= b THEN 1 ELSE 0)
    ELSE ((r * 10) \div b) * (10 ^ (n - 1)) + LongDiv((r * 10) % b, b, n - 1)

\* round(a * Scale / b) for a >= 0, b > 0.
DivAbs(a, b) == (a \div b) * Scale + LongDiv(a % b, b, 6)

\* The float quotient a / b, b # 0.
Div(a, b) == Sgn(a) * Sgn(b) * DivAbs(Abs(a), Abs(b))

\* Newton iteration for the square root, from above.
RECURSIVE SqrtNewton(_, _)
SqrtNewton(y, x) ==
    LET z == (y + Div(x, y)) \div 2
    IN  IF z >= y THEN y ELSE SqrtNewton(z, x)

\* The nearest y to sqrt(x): y(y-1) < x * Scale <= y(y+1).
RECURSIVE SqrtFix(_, _)
SqrtFix(y, x) ==
    IF y > 0 /\ MulFloor(y, y - 1) >= x THEN SqrtFix(y - 1, x)
    ELSE IF MulFloor(y, y + 1) < x THEN SqrtFix(y + 1, x)
    ELSE y

\* A first iterate above sqrt(x): (x + 1) / 2, and at most 47 > sqrt(2147).
SqrtStart(x) ==
    LET am == (x + Scale) \div 2 + 1
    IN  IF am > 47 * Scale THEN 47 * Scale ELSE am

\* np.sqrt(x), x >= 0.
Sqrt(x) == IF x = 0 THEN 0 ELSE SqrtFix(SqrtNewton(SqrtStart(x), x), x)

\* ln 2.
Ln2 == 693147

\* 2 * atanh(z) = 2 (z + z^3/3 + z^5/5 + z^7/7 + z^9/9), |z| <= 1/5.
Atanh2(z) ==
    LET z2 == Mul(z, z)
        z3 == Mul(z, z2)
        z5 == Mul(z3, z2)
        z7 == Mul(z5, z2)
        z9 == Mul(z7, z2)
    IN  2 * z + (630 * z3 + 378 * z5 + 270 * z7 + 210 * z9 + 472) \div 945

\* ln(x) = k ln 2 + ln(m), x = m 2^k with 3/4 <= m < 3/2.
RECURSIVE LnReduce(_, _)
LnReduce(x, k) ==
    IF 2 * x >= 3 * Scale THEN LnReduce((x + 1) \div 2, k + 1)
    ELSE IF 4 * x < 3 * Scale THEN LnReduce(2 * x, k - 1)
    ELSE k * Ln2 + Atanh2(Div(x - Scale, x + Scale))

\* np.log(x), x > 0.
Ln(x) == LnReduce(x, 0)

(***************************************************************************)
(* Values a flux function returns: a float, or the float NaN.              *)
(***************************************************************************)
Num(x) == [kind |-> "num", v |-> x]
NaN == [kind |-> "nan", v |-> 0]
IsNaN(r) == r.kind = "nan"

\* np.pi
Pi == 3141593
\* 2 * np.pi
TwoPi == 2 * Pi

(***************************************************************************)
(* src/src/vflux_methods.py                                                *)
(***************************************************************************)
\* The quotient to six decimals, for the flux computations that take alpha as
\* a number; calculate_thermal_diffusivity_binary64 is the same line with the
\* rounding of the float division itself.
calculate_thermal_diffusivity(thermal_conductivity, volumetric_heat_capacity) ==
    Div(thermal_conductivity, volumetric_heat_capacity)

\* Mutant: the ratio test Ar <= 1 is left out.
hatch_amplitude_method_no_ratio_test(amplitude_shallow, amplitude_deep, depth_difference, thermal_diffusivity, angular_frequency) ==
    IF amplitude_deep <= 0 \/ amplitude_shallow <= 0 THEN NaN
    ELSE Num(Mul(Div(thermal_diffusivity, depth_difference),
                 Ln(Div(amplitude_shallow, amplitude_deep))))

hatch_amplitude_method(amplitude_shallow, amplitude_deep, depth_difference, thermal_diffusivity, angular_frequency) ==
    IF amplitude_deep <= 0 \/ amplitude_shallow <= 0 THEN NaN
    ELSE LET Ar == Div(amplitude_shallow, amplitude_deep)
         IN  IF Ar <= Scale THEN NaN
             ELSE Num(Mul(Div(thermal_diffusivity, depth_difference), Ln(Ar)))

\* while delta < 0: delta += 2 * np.pi
RECURSIVE fold_negative(_)
fold_negative(delta) ==
    IF delta < 0 THEN fold_negative(delta + TwoPi) ELSE delta

\* while delta > 2 * np.pi: delta -= 2 * np.pi
RECURSIVE fold_above_2pi(_)
fold_above_2pi(delta) ==
    IF delta > TwoPi THEN fold_above_2pi(delta - TwoPi) ELSE delta

\* The total lag of hatch_phase_method after its two loops.
hatch_phase_delta_total(phase_shallow, phase_deep) ==
    fold_above_2pi(fold_negative(phase_deep - phase_shallow))

\* The lag of pure conduction, sqrt(omega dz^2 / (4 alpha)).
delta_phase_conductive(depth_difference, thermal_diffusivity, angular_frequency) ==
    Sqrt(Div(Mul(angular_frequency, Mul(depth_difference, depth_difference)),
             4 * thermal_diffusivity))

\* Mutant: the uncorrected equation v = 4 alpha dphi / (omega dz^2), with no
\* conductive lag subtracted.
hatch_phase_method_naive(phase_shallow, phase_deep, depth_difference, thermal_diffusivity, angular_frequency, thermal_conductivity, heat_capacity_water) ==
    Num(Div(Mul(4 * thermal_diffusivity, hatch_phase_delta_total(phase_shallow, phase_deep)),
            Mul(angular_frequency, Mul(depth_difference, depth_difference))))

\* Mutant: no floor at 0.0, the equation is applied to a lag <= 0 as well.
hatch_phase_method_signed(phase_shallow, phase_deep, depth_difference, thermal_diffusivity, angular_frequency, thermal_conductivity, heat_capacity_water) ==
    LET delta_phase_advective ==
            hatch_phase_delta_total(phase_shallow, phase_deep)
              - delta_phase_conductive(depth_difference, thermal_diffusivity,
                                       angular_frequency)
    IN  Num(Div(Mul(Div(delta_phase_advective, depth_difference),
                    2 * thermal_conductivity),
                heat_capacity_water))

hatch_phase_method(phase_shallow, phase_deep, depth_difference, thermal_diffusivity, angular_frequency, thermal_conductivity, heat_capacity_water) ==
    LET delta_phase_total == hatch_phase_delta_total(phase_shallow, phase_deep)
        delta_phase_advective ==
            delta_phase_total
              - delta_phase_conductive(depth_difference, thermal_diffusivity,
                                       angular_frequency)
    IN  IF delta_phase_advective <= 0 THEN Num(0)
        ELSE Num(Div(Mul(Div(delta_phase_advective, depth_difference),
                         2 * thermal_conductivity),
                     heat_capacity_water))

\* The lag of keery_method: negative differences are folded, large ones are kept.
keery_delta_phi(phase_shallow, phase_deep) ==
    fold_negative(phase_deep - phase_shallow)

\* Mutant: the conductive lag is subtracted from the phase difference, as in
\* hatch_phase_method.
keery_method_conduction_corrected(amplitude_shallow, amplitude_deep, phase_shallow, phase_deep, depth_difference, thermal_diffusivity, angular_frequency, thermal_conductivity, heat_capacity_water, heat_capacity_sediment) ==
    IF amplitude_deep <= 0 \/ amplitude_shallow <= 0 THEN NaN
    ELSE LET Ar == Div(amplitude_shallow, amplitude_deep)
             delta_phi == keery_delta_phi(phase_shallow, phase_deep)
                            - delta_phase_conductive(depth_difference,
                                                     thermal_diffusivity,
                                                     angular_frequency)
             beta == Sqrt(Div(angular_frequency, 2 * thermal_diffusivity))
             numerator == Ln(Ar) + Mul(beta, depth_difference)
                            - Div(delta_phi, Mul(beta, depth_difference))
         IN  Num(Mul(Div(2 * thermal_diffusivity, depth_difference), numerator))

keery_method(amplitude_shallow, amplitude_deep, phase_shallow, phase_deep, depth_difference, thermal_diffusivity, angular_frequency, thermal_conductivity, heat_capacity_water, heat_capacity_sediment) ==
    IF amplitude_deep <= 0 \/ amplitude_shallow <= 0 THEN NaN
    ELSE LET Ar == Div(amplitude_shallow, amplitude_deep)
             delta_phi == keery_delta_phi(phase_shallow, phase_deep)
             beta == Sqrt(Div(angular_frequency, 2 * thermal_diffusivity))
             numerator == Ln(Ar) + Mul(beta, depth_difference)
                            - Div(delta_phi, Mul(beta, depth_difference))
         IN  Num(Mul(Div(2 * thermal_diffusivity, depth_difference), numerator))

\* The lag of mccallum_method after its two loops.
mccallum_delta_phi(phase_shallow, phase_deep) ==
    fold_above_2pi(fold_negative(phase_deep - phase_shallow))

\* term2_inside of mccallum_method, for positive amplitudes.
mccallum_term2_inside(amplitude_shallow, amplitude_deep, phase_shallow, phase_deep, depth_difference, thermal_diffusivity, angular_frequency) ==
    LET delta_A == Ln(Div(amplitude_shallow, amplitude_deep))
        delta_phi == mccallum_delta_phi(phase_shallow, phase_deep)
    IN  Mul(delta_A, delta_A)
          + Div(Mul(angular_frequency, Mul(depth_difference, depth_difference)),
                4 * thermal_diffusivity)
          - Mul(delta_phi, delta_phi)

\* Mutant: a negative term2_inside is replaced by term2 = 0 instead of the call of
\* hatch_amplitude_method (the variant of revisar_metodos_vflux.py).
mccallum_method_term2_zero(amplitude_shallow, amplitude_deep, phase_shallow, phase_deep, depth_difference, thermal_diffusivity, angular_frequency) ==
    IF amplitude_deep <= 0 \/ amplitude_shallow <= 0 THEN NaN
    ELSE LET term1 == Ln(Div(amplitude_shallow, amplitude_deep))
             term2_inside ==
                 mccallum_term2_inside(amplitude_shallow, amplitude_deep,
                                       phase_shallow, phase_deep, depth_difference,
                                       thermal_diffusivity, angular_frequency)
             term2 == IF term2_inside < 0 THEN 0 ELSE Sqrt(term2_inside)
         IN  Num(Mul(Div(thermal_diffusivity, depth_difference), term1 + term2))

\* Mutant: the root is subtracted.
mccallum_method_minus_root(amplitude_shallow, amplitude_deep, phase_shallow, phase_deep, depth_difference, thermal_diffusivity, angular_frequency) ==
    IF amplitude_deep <= 0 \/ amplitude_shallow <= 0 THEN NaN
    ELSE LET term1 == Ln(Div(amplitude_shallow, amplitude_deep))
             term2_inside ==
                 mccallum_term2_inside(amplitude_shallow, amplitude_deep,
                                       phase_shallow, phase_deep, depth_difference,
                                       thermal_diffusivity, angular_frequency)
         IN  IF term2_inside < 0
             THEN hatch_amplitude_method(amplitude_shallow, amplitude_deep,
                                         depth_difference, thermal_diffusivity,
                                         angular_frequency)
             ELSE Num(Mul(Div(thermal_diffusivity, depth_difference),
                          term1 - Sqrt(term2_inside)))

\* Mutant: Ar <= 1 is undefined whatever the discriminant, as in Hatch-Amplitude.
mccallum_method_ratio_first(amplitude_shallow, amplitude_deep, phase_shallow, phase_deep, depth_difference, thermal_diffusivity, angular_frequency) ==
    IF amplitude_deep <= 0 \/ amplitude_shallow <= 0 THEN NaN
    ELSE IF Div(amplitude_shallow, amplitude_deep) <= Scale THEN NaN
    ELSE LET term1 == Ln(Div(amplitude_shallow, amplitude_deep))
             term2_inside ==
                 mccallum_term2_inside(amplitude_shallow, amplitude_deep,
                                       phase_shallow, phase_deep, depth_difference,
                                       thermal_diffusivity, angular_frequency)
         IN  IF term2_inside < 0
             THEN hatch_amplitude_method(amplitude_shallow, amplitude_deep,
                                         depth_difference, thermal_diffusivity,
                                         angular_frequency)
             ELSE Num(Mul(Div(thermal_diffusivity, depth_difference),
                          term1 + Sqrt(term2_inside)))

mccallum_method(amplitude_shallow, amplitude_deep, phase_shallow, phase_deep, depth_difference, thermal_diffusivity, angular_frequency) ==
    IF amplitude_deep <= 0 \/ amplitude_shallow <= 0 THEN NaN
    ELSE LET term1 == Ln(Div(amplitude_shallow, amplitude_deep))
             term2_inside ==
                 mccallum_term2_inside(amplitude_shallow, amplitude_deep,
                                       phase_shallow, phase_deep, depth_difference,
                                       thermal_diffusivity, angular_frequency)
         IN  IF term2_inside < 0
             THEN hatch_amplitude_method(amplitude_shallow, amplitude_deep,
                                         depth_difference, thermal_diffusivity,
                                         angular_frequency)
             ELSE Num(Mul(Div(thermal_diffusivity, depth_difference),
                          term1 + Sqrt(term2_inside)))

\* Mutant: the ratio test Ar <= 1 is weakened to Ar = 1, so a deep amplitude above
\* the shallow one gives a negative flux.
luce_method_no_ratio_test(amplitude_shallow, amplitude_deep, depth_difference, angular_frequency) ==
    IF amplitude_deep <= 0 \/ amplitude_shallow <= 0 THEN NaN
    ELSE LET Ar == Div(amplitude_shallow, amplitude_deep)
         IN  IF Ar = Scale THEN NaN
             ELSE Num(Div(Mul(angular_frequency, depth_difference), 2 * Ln(Ar)))

luce_method(amplitude_shallow, amplitude_deep, depth_difference, angular_frequency) ==
    IF amplitude_deep <= 0 \/ amplitude_shallow <= 0 THEN NaN
    ELSE LET Ar == Div(amplitude_shallow, amplitude_deep)
         IN  IF Ar <= Scale THEN NaN
             ELSE Num(Div(Mul(angular_frequency, depth_difference), 2 * Ln(Ar)))

\* flux * 1000 * 86400, exactly: n * 86400000 = hi * 10^9 + lo in units of 1 / Scale.
times_1000_86400(n) ==
    LET a == Abs(n) \div Kilo
        b == Abs(n) % Kilo
        P == a * 864
        Q == b * 864
        lo0 == (P % 10) * 10 ^ 8 + (Q % 10 ^ 4) * 10 ^ 5
    IN  [kind |-> "wide", sign |-> Sgn(n),
         hi |-> P \div 10 + Q \div 10 ^ 4 + lo0 \div 10 ^ 9,
         lo |-> lo0 % 10 ^ 9]

\* flux * 1000 * 86400 if not np.isnan(flux) else np.nan
\* Mutant: the factor 1000 is forgotten, flux * 86400.
to_mm_day_no_1000(flux) ==
    IF IsNaN(flux) THEN NaN
    ELSE LET a == Abs(flux.v) \div Kilo
             b == Abs(flux.v) % Kilo
             lo0 == ((a * 864) % 10 ^ 4) * 10 ^ 5 + b * 86400
         IN  [kind |-> "wide", sign |-> Sgn(flux.v),
              hi |-> (a * 864) \div 10 ^ 4 + lo0 \div 10 ^ 9,
              lo |-> lo0 % 10 ^ 9]

to_mm_day(flux) == IF IsNaN(flux) THEN NaN ELSE times_1000_86400(flux.v)

\* The keys of the results dictionary.
Methods == {"mccallum", "hatch_amplitude", "hatch_phase", "keery", "luce"}

\* Mutant: when Hatch-Amplitude is undefined, nothing else is computed.
calculate_vflux_all_methods_blocking(amplitude_shallow, amplitude_deep, phase_shallow, phase_deep, depth_difference, thermal_conductivity, heat_capacity_sediment, heat_capacity_water, angular_frequency) ==
    LET alpha == calculate_thermal_diffusivity(thermal_conductivity, heat_capacity_sediment)
        hatch_amplitude ==
            hatch_amplitude_method(amplitude_shallow, amplitude_deep,
                                   depth_difference, alpha, angular_frequency)
        results ==
            [mccallum |->
                 mccallum_method(amplitude_shallow, amplitude_deep, phase_shallow,
                                 phase_deep, depth_difference, alpha, angular_frequency),
             hatch_amplitude |-> hatch_amplitude,
             hatch_phase |->
                 IF IsNaN(hatch_amplitude) THEN NaN
                 ELSE hatch_phase_method(phase_shallow, phase_deep, depth_difference,
                                         alpha, angular_frequency, thermal_conductivity,
                                         heat_capacity_water),
             keery |->
                 IF IsNaN(hatch_amplitude) THEN NaN
                 ELSE keery_method(amplitude_shallow, amplitude_deep, phase_shallow,
                                   phase_deep, depth_difference, alpha, angular_frequency,
                                   thermal_conductivity, heat_capacity_water,
                                   heat_capacity_sediment),
             luce |->
                 luce_method(amplitude_shallow, amplitude_deep, depth_difference,
                             angular_frequency)]
    IN  [kind |-> "dict",
         flux_m_s |-> results,
         flux_mm_day |-> [method \in Methods |-> to_mm_day(results[method])],
         thermal_diffusivity |-> alpha]

calculate_vflux_all_methods(amplitude_shallow, amplitude_deep, phase_shallow, phase_deep, depth_difference, thermal_conductivity, heat_capacity_sediment, heat_capacity_water, angular_frequency) ==
    LET alpha == calculate_thermal_diffusivity(thermal_conductivity, heat_capacity_sediment)
        results ==
            [mccallum |->
                 mccallum_method(amplitude_shallow, amplitude_deep, phase_shallow,
                                 phase_deep, depth_difference, alpha, angular_frequency),
             hatch_amplitude |->
                 hatch_amplitude_method(amplitude_shallow, amplitude_deep,
                                        depth_difference, alpha, angular_frequency),
             hatch_phase |->
                 hatch_phase_method(phase_shallow, phase_deep, depth_difference, alpha,
                                    angular_frequency, thermal_conductivity,
                                    heat_capacity_water),
             keery |->
                 keery_method(amplitude_shallow, amplitude_deep, phase_shallow,
                              phase_deep, depth_difference, alpha, angular_frequency,
                              thermal_conductivity, heat_capacity_water,
                              heat_capacity_sediment),
             luce |->
                 luce_method(amplitude_shallow, amplitude_deep, depth_difference,
                             angular_frequency)]
    IN  [kind |-> "dict",
         flux_m_s |-> results,
         flux_mm_day |-> [method \in Methods |-> to_mm_day(results[method])],
         thermal_diffusivity |-> alpha]

(***************************************************************************)
(* Inputs.  A medium is (thermal conductivity, heat capacity of the        *)
(* sediment, heat capacity of water): the unit medium, one with            *)
(* diffusivity 2, and the saturated sand of generate_synthetic_data.py.    *)
(***************************************************************************)
MaxAmp == 3
MinPhase == 2
MaxPhase == 7
MaxDz == 2

\* LAMBDA_, C_SEDIMENT, C_WATER of generate_synthetic_data.py, in dm, day, 1e6 J/m3/K.
Sand == [lambda |-> 17280000, Cs |-> 2500000, Cw |-> 4180000]

Media == { [lambda |-> Scale, Cs |-> Scale, Cw |-> Scale],
           [lambda |-> 2 * Scale, Cs |-> Scale, Cw |-> 2 * Scale],
           Sand }

\* Amplitudes -1, 0, 1, ..., MaxAmp degrees.
Amplitudes == { k * Scale : k \in -1 .. MaxAmp }

\* Phases of the shallow sensor.
PhasesShallow == { 0, Scale }

\* phi_deep of test_hatch_corregido.py
PhiDeepTest == 482800

\* Phases of the deep sensor: whole radians, the measured 0.4828 and a full turn.
PhasesDeep == { k * Scale : k \in -MinPhase .. MaxPhase } \cup { PhiDeepTest, TwoPi }

\* Sensor spacings 1 .. MaxDz dm.
Depths == { k * Scale : k \in 1 .. MaxDz }

\* The diurnal 2 pi per day, and 4 per day (conductive lag of exactly dz / sqrt(alpha)).
Frequencies == { TwoPi, 4 * Scale }

Inputs ==
    { [amplitude_shallow |-> as, amplitude_deep |-> ad,
       phase_shallow |-> ps, phase_deep |-> pd,
       depth_difference |-> dz,
       thermal_conductivity |-> m.lambda,
       heat_capacity_sediment |-> m.Cs,
       heat_capacity_water |-> m.Cw,
       thermal_diffusivity |-> calculate_thermal_diffusivity(m.lambda, m.Cs),
       angular_frequency |-> w] :
      as \in Amplitudes, ad \in Amplitudes, ps \in PhasesShallow, pd \in PhasesDeep,
      dz \in Depths, m \in Media, w \in Frequencies }

(***************************************************************************)
(* State: the arguments of the call, the function last called and what it  *)
(* returned; the globals of generate_synthetic_data.py; and the previous   *)
(* call of a caller that compares two results of mccallum_method.          *)
(***************************************************************************)
VARIABLES args, op, ret, synth, prev
vars == <<args, op, ret, synth, prev>>

NoReturn == [kind |-> "none", v |-> 0]
NoSynth == [pc |-> "unused"]
NoCall == [kind |-> "none"]

Init ==
    /\ args \in Inputs
    /\ op = "none"
    /\ ret = NoReturn
    /\ synth = NoSynth
    /\ prev = NoCall

CallHatchAmplitude ==
    /\ op' = "hatch_amplitude_method"
    /\ ret' = hatch_amplitude_method(args.amplitude_shallow, args.amplitude_deep,
                                     args.depth_difference, args.thermal_diffusivity,
                                     args.angular_frequency)
    /\ UNCHANGED <<args, synth, prev>>

CallHatchPhase ==
    /\ op' = "hatch_phase_method"
    /\ ret' = hatch_phase_method(args.phase_shallow, args.phase_deep,
                                 args.depth_difference, args.thermal_diffusivity,
                                 args.angular_frequency, args.thermal_conductivity,
                                 args.heat_capacity_water)
    /\ UNCHANGED <<args, synth, prev>>

CallKeery ==
    /\ op' = "keery_method"
    /\ ret' = keery_method(args.amplitude_shallow, args.amplitude_deep,
                           args.phase_shallow, args.phase_deep, args.depth_difference,
                           args.thermal_diffusivity, args.angular_frequency,
                           args.thermal_conductivity, args.heat_capacity_water,
                           args.heat_capacity_sediment)
    /\ UNCHANGED <<args, synth, prev>>

CallMcCallum ==
    /\ op' = "mccallum_method"
    /\ ret' = mccallum_method(args.amplitude_shallow, args.amplitude_deep,
                              args.phase_shallow, args.phase_deep,
                              args.depth_difference, args.thermal_diffusivity,
                              args.angular_frequency)
    /\ UNCHANGED <<args, synth, prev>>

CallLuce ==
    /\ op' = "luce_method"
    /\ ret' = luce_method(args.amplitude_shallow, args.amplitude_deep,
                          args.depth_difference, args.angular_frequency)
    /\ UNCHANGED <<args, synth, prev>>

CallAllMethods ==
    /\ op' = "calculate_vflux_all_methods"
    /\ ret' = calculate_vflux_all_methods(args.amplitude_shallow, args.amplitude_deep,
                                          args.phase_shallow, args.phase_deep,
                                          args.depth_difference,
                                          args.thermal_conductivity,
                                          args.heat_capacity_sediment,
                                          args.heat_capacity_water,
                                          args.angular_frequency)
    /\ UNCHANGED <<args, synth, prev>>

Next ==
    \/ CallHatchAmplitude
    \/ CallHatchPhase
    \/ CallKeery
    \/ CallMcCallum
    \/ CallLuce
    \/ CallAllMethods

Spec == Init /\ [][Next]_vars
(***************************************************************************)
(* generate_synthetic_data.py and test_hatch_corregido.py.  The script's   *)
(* globals are the fields of synth; its constants are one of the           *)
(* configurations below.  In the units of this module the conversion       *)
(* mm/day -> m/s of line 26 is mm/day -> dm/day, a division by 100.        *)
(***************************************************************************)
MaxFlux == 4
MaxSpacing == 2

\* TARGET_FLUX: 5, 10, ... mm/day, and 1200 mm/day, whose lag can pass a full turn.
TargetFluxes == { 5 * k * Scale : k \in 1 .. MaxFlux } \cup { 1200 * Scale }

\* The globals of lines 10-29 (LAMBDA_ is LAMBDA, a reserved word here), with v and
\* alpha as lines 26 and 29 compute them.
SynthConfigs ==
    { [pc |-> "start",
       TARGET_FLUX |-> f, LAMBDA_ |-> m.lambda, C_SEDIMENT |-> m.Cs, C_WATER |-> m.Cw,
       OMEGA |-> w, z1 |-> d * Scale, z2 |-> 2 * d * Scale, z3 |-> 3 * d * Scale,
       v |-> Div(f, 100 * Scale),
       alpha |-> Div(m.lambda, m.Cs),
       phi_12 |-> 0, phi_23 |-> 0, phi_13 |-> 0,
       sensors |-> << >>] :
      f \in TargetFluxes, m \in Media, w \in Frequencies, d \in 1 .. MaxSpacing }

\* The configuration the repository ships: 5 mm/day through the sand, sensors at
\* 0.10, 0.20 and 0.30 m, the diurnal frequency.
IsRepositoryConfig ==
    /\ synth.pc # "unused"
    /\ synth.TARGET_FLUX = 5 * Scale
    /\ synth.LAMBDA_ = Sand.lambda /\ synth.C_SEDIMENT = Sand.Cs /\ synth.C_WATER = Sand.Cw
    /\ synth.OMEGA = TwoPi
    /\ synth.z1 = Scale /\ synth.z2 = 2 * Scale /\ synth.z3 = 3 * Scale

\* Mutant: the forward model without its conductive term.
calcular_desfase_mccallum_no_conduction(z_shallow, z_deep, flux_ms) ==
    LET dz == z_deep - z_shallow
        delta_phi == Div(Mul(Mul(flux_ms, synth.C_WATER), dz), 2 * synth.LAMBDA_)
    IN  [time_lag_seconds |-> Div(delta_phi, synth.OMEGA), delta_phi |-> delta_phi]

calcular_desfase_mccallum(z_shallow, z_deep, flux_ms) ==
    LET dz == z_deep - z_shallow
        term_conductive == Sqrt(Div(Mul(synth.OMEGA, Mul(dz, dz)), 4 * synth.alpha))
        term_advective == Div(Mul(Mul(flux_ms, synth.C_WATER), dz), 2 * synth.LAMBDA_)
        delta_phi == term_conductive + term_advective
    IN  [time_lag_seconds |-> Div(delta_phi, synth.OMEGA), delta_phi |-> delta_phi]

\* The arguments of the three calls of generar_serie_termica (lines 106-108).
generated_sensors ==
    << [base_temp |-> 20 * Scale, amplitud |-> 3 * Scale, phase_rad |-> 0],
       [base_temp |-> 19 * Scale, amplitud |-> 2 * Scale, phase_rad |-> synth.phi_12],
       [base_temp |-> 18 * Scale, amplitud |-> 1200000, phase_rad |-> synth.phi_13] >>

\* Depth of sensor i.
sensor_depth(i) == IF i = 1 THEN synth.z1 ELSE IF i = 2 THEN synth.z2 ELSE synth.z3

\* The harmonic parameters of the generated pair (i, j) with the script's medium.
pair_args(i, j) ==
    [pair |-> <<i, j>>,
     amplitude_shallow |-> synth.sensors[i].amplitud,
     amplitude_deep |-> synth.sensors[j].amplitud,
     phase_shallow |-> synth.sensors[i].phase_rad,
     phase_deep |-> synth.sensors[j].phase_rad,
     depth_difference |-> sensor_depth(j) - sensor_depth(i),
     thermal_conductivity |-> synth.LAMBDA_,
     heat_capacity_sediment |-> synth.C_SEDIMENT,
     heat_capacity_water |-> synth.C_WATER,
     thermal_diffusivity |-> synth.alpha,
     angular_frequency |-> synth.OMEGA]

\* The parameters of test_hatch_corregido.py (lines 10-16).
test_hatch_corregido_args ==
    [pair |-> <<0, 0>>,
     amplitude_shallow |-> 0, amplitude_deep |-> 0,
     phase_shallow |-> 0, phase_deep |-> PhiDeepTest,
     depth_difference |-> Scale,
     thermal_conductivity |-> Sand.lambda,
     heat_capacity_sediment |-> Sand.Cs,
     heat_capacity_water |-> Sand.Cw,
     thermal_diffusivity |-> 6912000,
     angular_frequency |-> TwoPi]

SensorPairs == { <<1, 2>>, <<2, 3>>, <<1, 3>> }

NoArgs == [pair |-> <<0, 0>>]

InitSynth ==
    /\ synth \in SynthConfigs
    /\ args = NoArgs
    /\ op = "none"
    /\ ret = NoReturn
    /\ prev = NoCall

\* Lines 64-66.
ComputeLags ==
    /\ synth.pc = "start"
    /\ synth' = [synth EXCEPT
                   !.pc = "lags",
                   !.phi_12 = calcular_desfase_mccallum(synth.z1, synth.z2, synth.v).delta_phi,
                   !.phi_23 = calcular_desfase_mccallum(synth.z2, synth.z3, synth.v).delta_phi,
                   !.phi_13 = calcular_desfase_mccallum(synth.z1, synth.z3, synth.v).delta_phi]
    /\ UNCHANGED <<args, op, ret, prev>>

\* Lines 106-108.
GenerateSeries ==
    /\ synth.pc = "lags"
    /\ synth' = [synth EXCEPT !.pc = "series", !.sensors = generated_sensors]
    /\ UNCHANGED <<args, op, ret, prev>>

\* hatch_phase_method on the parameters of a generated pair.
PairHatchPhase ==
    /\ synth.pc = "series"
    /\ \E p \in SensorPairs :
         /\ args' = pair_args(p[1], p[2])
         /\ op' = "hatch_phase_method"
         /\ ret' = hatch_phase_method(args'.phase_shallow, args'.phase_deep,
                                      args'.depth_difference, args'.thermal_diffusivity,
                                      args'.angular_frequency,
                                      args'.thermal_conductivity,
                                      args'.heat_capacity_water)
    /\ UNCHANGED <<synth, prev>>

\* hatch_amplitude_method on the parameters of a generated pair.
PairHatchAmplitude ==
    /\ synth.pc = "series"
    /\ \E p \in SensorPairs :
         /\ args' = pair_args(p[1], p[2])
         /\ op' = "hatch_amplitude_method"
         /\ ret' = hatch_amplitude_method(args'.amplitude_shallow, args'.amplitude_deep,
                                          args'.depth_difference,
                                          args'.thermal_diffusivity,
                                          args'.angular_frequency)
    /\ UNCHANGED <<synth, prev>>

\* test_hatch_corregido.py, lines 22-30.
TestHatchCorregido ==
    /\ args' = test_hatch_corregido_args
    /\ op' = "hatch_phase_method"
    /\ ret' = hatch_phase_method(args'.phase_shallow, args'.phase_deep,
                                 args'.depth_difference, args'.thermal_diffusivity,
                                 args'.angular_frequency, args'.thermal_conductivity,
                                 args'.heat_capacity_water)
    /\ UNCHANGED <<synth, prev>>

NextSynth ==
    \/ ComputeLags
    \/ GenerateSeries
    \/ PairHatchPhase
    \/ PairHatchAmplitude
    \/ TestHatchCorregido

SpecSynth == InitSynth /\ [][NextSynth]_vars

(***************************************************************************)
(* A caller that calls mccallum_method twice and keeps the first result.   *)
(***************************************************************************)
MaxPairDeep == 3
MaxPairPhase == 3

\* Shallow amplitude 3, deep amplitudes 1 .. MaxPairDeep, lags 0 .. MaxPairPhase
\* radians, diffusivity 1 or 2, dz = 1 and omega = 4.
PairInputs ==
    { [amplitude_shallow |-> 3 * Scale, amplitude_deep |-> ad * Scale,
       phase_shallow |-> 0, phase_deep |-> pd * Scale,
       depth_difference |-> Scale,
       thermal_conductivity |-> al * Scale,
       heat_capacity_sediment |-> Scale,
       heat_capacity_water |-> Scale,
       thermal_diffusivity |-> calculate_thermal_diffusivity(al * Scale, Scale),
       angular_frequency |-> 4 * Scale] :
      ad \in 1 .. MaxPairDeep, pd \in 0 .. MaxPairPhase, al \in 1 .. 2 }

InitPair ==
    /\ args \in PairInputs
    /\ op = "none"
    /\ ret = NoReturn
    /\ synth = NoSynth
    /\ prev = NoCall

FirstMcCallum ==
    /\ op = "none"
    /\ CallMcCallum

SecondMcCallum ==
    /\ op = "mccallum_method"
    /\ prev = NoCall
    /\ prev' = [kind |-> "call", args |-> args, ret |-> ret]
    /\ args' \in PairInputs
    /\ op' = "mccallum_method"
    /\ ret' = mccallum_method(args'.amplitude_shallow, args'.amplitude_deep,
                              args'.phase_shallow, args'.phase_deep,
                              args'.depth_difference, args'.thermal_diffusivity,
                              args'.angular_frequency)
    /\ UNCHANGED synth

NextPair ==
    \/ FirstMcCallum
    \/ SecondMcCallum

SpecPair == InitPair /\ [][NextPair]_vars

(***************************************************************************)
(* src/src/harmonic_analysis.py.  Times are hours, frequencies rad/hour.   *)
(* A series is given by the harmonic parameters it was sampled from; what  *)
(* scipy's curve_fit makes of it is one of curve_fit_outcomes: a parameter *)
(* vector that reproduces the series, or an exception.  While a function   *)
(* of this file runs, prev holds the outcomes of its calls of curve_fit.   *)
(* Pi is np.pi itself: a phase k * Pi of the model is the float k * np.pi.  *)
(***************************************************************************)
\* The 'no fit' value.
None == [kind |-> "None"]

\* maxfev of the call of curve_fit.
maxfev == 5000

\* omega_daily = 2 * np.pi / 24
omega_daily == Div(TwoPi, 24 * Scale)

\* phi_init of the initial guess p0.
phi_init == 0

\* The half turns of phase, either way of the phase of p0, within which the
\* fitted phase lies.
MaxAlias == 2

\* harmonic_model gives the same series for (B, phi) and (-B, phi + pi) and
\* (-B, phi - pi): the pair with the phase nearest to the phase of p0.
RECURSIVE nearest_to_p0(_, _)
nearest_to_p0(amplitude, phase) ==
    IF 2 * (phase - phi_init) > Pi THEN nearest_to_p0(-amplitude, phase - Pi)
    ELSE IF 2 * (phase - phi_init) < -Pi THEN nearest_to_p0(-amplitude, phase + Pi)
    ELSE <<amplitude, phase>>

\* The parameter vectors with which harmonic_model reproduces a series sampled
\* from mean + amplitude sin(omega t + phase), up to MaxAlias half turns from
\* the phase of p0.  A constant series (amplitude 0) is reproduced by
\* p0 = [mean, 0, omega_daily, phi_init] itself.
equivalent_popt(signal) ==
    IF signal.amplitude = 0
    THEN { <<signal.mean, 0, omega_daily, phi_init>> }
    ELSE LET near == nearest_to_p0(signal.amplitude, signal.phase)
         IN  { <<signal.mean,
                 IF k % 2 = 0 THEN near[1] ELSE -near[1],
                 signal.omega,
                 near[2] + k * Pi>> : k \in -MaxAlias .. MaxAlias }

\* What curve_fit(harmonic_model, time, temperature, p0, maxfev) does: started
\* from p0 it returns as popt one of the vectors that reproduce the series,
\* or raises (RuntimeError when maxfev evaluations did not converge).
curve_fit_outcomes(signal) ==
    { [kind |-> "popt", popt |-> p, maxfev |-> maxfev] : p \in equivalent_popt(signal) }
      \cup { [kind |-> "raise", exc |-> e, maxfev |-> maxfev] :
               e \in {"RuntimeError", "ValueError"} }

\* Mutant: no try / except around curve_fit.
fit_harmonic_model_no_except(outcome) ==
    IF outcome.kind = "raise" THEN [kind |-> "raise", exc |-> outcome.exc]
    ELSE [kind |-> "params",
          mean |-> outcome.popt[1],
          amplitude |-> outcome.popt[2],
          omega |-> outcome.popt[3],
          phase |-> outcome.popt[4],
          period_hours |-> Div(TwoPi, outcome.popt[3])]

\* fit_harmonic_model, given what its call of curve_fit does.
fit_harmonic_model(outcome) ==
    IF outcome.kind = "raise" THEN None
    ELSE [kind |-> "params",
          mean |-> outcome.popt[1],
          amplitude |-> outcome.popt[2],
          omega |-> outcome.popt[3],
          phase |-> outcome.popt[4],
          period_hours |-> Div(TwoPi, outcome.popt[3])]

\* Mutant: the ratio is taken the other way round.
calculate_amplitude_ratio_inverted(amplitude_shallow, amplitude_deep) ==
    IF amplitude_deep <= 0 \/ amplitude_shallow <= 0 THEN NaN
    ELSE Num(Ln(Div(amplitude_deep, amplitude_shallow)))

calculate_amplitude_ratio(amplitude_shallow, amplitude_deep) ==
    IF amplitude_deep <= 0 \/ amplitude_shallow <= 0 THEN NaN
    ELSE Num(Ln(Div(amplitude_shallow, amplitude_deep)))

\* while delta_phi > np.pi: delta_phi -= 2 * np.pi
RECURSIVE fold_above_pi(_)
fold_above_pi(delta_phi) ==
    IF delta_phi > Pi THEN fold_above_pi(delta_phi - TwoPi) ELSE delta_phi

\* while delta_phi < -np.pi: delta_phi += 2 * np.pi
RECURSIVE fold_below_minus_pi(_)
fold_below_minus_pi(delta_phi) ==
    IF delta_phi < -Pi THEN fold_below_minus_pi(delta_phi + TwoPi) ELSE delta_phi

\* Mutant: each fold is an if, not a while.
calculate_phase_shift_single_fold(phase_shallow, phase_deep) ==
    LET delta_phi == phase_deep - phase_shallow
        once == IF delta_phi > Pi THEN delta_phi - TwoPi ELSE delta_phi
    IN  IF once < -Pi THEN once + TwoPi ELSE once

calculate_phase_shift(phase_shallow, phase_deep) ==
    fold_below_minus_pi(fold_above_pi(phase_deep - phase_shallow))

analyze_sensor_pair(outcome_shallow, outcome_deep) ==
    LET params_shallow == fit_harmonic_model(outcome_shallow)
        params_deep == fit_harmonic_model(outcome_deep)
    IN  IF params_shallow = None \/ params_deep = None THEN None
        ELSE [kind |-> "pair",
              A_shallow |-> params_shallow.amplitude,
              A_deep |-> params_deep.amplitude,
              phi_shallow |-> params_shallow.phase,
              phi_deep |-> params_deep.phase,
              mean_shallow |-> params_shallow.mean,
              mean_deep |-> params_deep.mean,
              delta_A |-> calculate_amplitude_ratio(params_shallow.amplitude,
                                                    params_deep.amplitude),
              delta_phi |-> calculate_phase_shift(params_shallow.phase,
                                                  params_deep.phase),
              period_hours |-> params_shallow.period_hours]

MaxTurns == 4

\* Fitted phases of the shallow sensor.
HarmPhasesShallow == { 0, Scale, Pi }

\* Fitted phases of the deep sensor: half turns and whole radians.
HarmPhasesDeep ==
    { k * Pi : k \in -MaxTurns .. MaxTurns } \cup { k * Scale : k \in -MaxPhase .. MaxPhase }

\* The harmonic parameters of the two series of a pair: means 20 and 19 degrees,
\* the diurnal frequency.
HarmInputs ==
    { [amplitude_shallow |-> as, amplitude_deep |-> ad,
       phase_shallow |-> ps, phase_deep |-> pd,
       mean_shallow |-> 20 * Scale, mean_deep |-> 19 * Scale,
       omega |-> omega_daily] :
      as \in Amplitudes, ad \in Amplitudes,
      ps \in HarmPhasesShallow, pd \in HarmPhasesDeep }

\* The series temp_shallow and temp_deep of the arguments.
temp_shallow ==
    [mean |-> args.mean_shallow, amplitude |-> args.amplitude_shallow,
     omega |-> args.omega, phase |-> args.phase_shallow]

temp_deep ==
    [mean |-> args.mean_deep, amplitude |-> args.amplitude_deep,
     omega |-> args.omega, phase |-> args.phase_deep]

InitHarm ==
    /\ args \in HarmInputs
    /\ op = "none"
    /\ ret = NoReturn
    /\ synth = NoSynth
    /\ prev = NoCall

\* fit_harmonic_model(time_hours, temp_shallow)
CallFitHarmonicModel ==
    /\ op = "none"
    /\ \E outcome \in curve_fit_outcomes(temp_shallow) :
         /\ prev' = [kind |-> "curve_fit", outcomes |-> <<outcome>>]
         /\ ret' = fit_harmonic_model(outcome)
    /\ op' = "fit_harmonic_model"
    /\ UNCHANGED <<args, synth>>

\* analyze_sensor_pair(time_hours, temp_shallow, temp_deep)
CallAnalyzeSensorPair ==
    /\ op = "none"
    /\ \E outcome_shallow \in curve_fit_outcomes(temp_shallow),
          outcome_deep \in curve_fit_outcomes(temp_deep) :
         /\ prev' = [kind |-> "curve_fit",
                     outcomes |-> <<outcome_shallow, outcome_deep>>]
         /\ ret' = analyze_sensor_pair(outcome_shallow, outcome_deep)
    /\ op' = "analyze_sensor_pair"
    /\ UNCHANGED <<args, synth>>

CallAmplitudeRatio ==
    /\ op = "none"
    /\ op' = "calculate_amplitude_ratio"
    /\ ret' = calculate_amplitude_ratio(args.amplitude_shallow, args.amplitude_deep)
    /\ UNCHANGED <<args, synth, prev>>

CallPhaseShift ==
    /\ op = "none"
    /\ op' = "calculate_phase_shift"
    /\ ret' = Num(calculate_phase_shift(args.phase_shallow, args.phase_deep))
    /\ UNCHANGED <<args, synth, prev>>

\* calculate_phase_shift(0, x) on the x a first call returned.
CallPhaseShiftAgain ==
    /\ op = "calculate_phase_shift"
    /\ prev = NoCall
    /\ prev' = [kind |-> "call", args |-> args, ret |-> ret]
    /\ args' = [args EXCEPT !.phase_shallow = 0, !.phase_deep = ret.v]
    /\ op' = "calculate_phase_shift"
    /\ ret' = Num(calculate_phase_shift(0, ret.v))
    /\ UNCHANGED synth

NextHarm ==
    \/ CallFitHarmonicModel
    \/ CallAnalyzeSensorPair
    \/ CallAmplitudeRatio
    \/ CallPhaseShift
    \/ CallPhaseShiftAgain

SpecHarm == InitHarm /\ [][NextHarm]_vars

(***************************************************************************)
(* Calls with a non-physical configuration.  The arguments are Python      *)
(* floats, whose division raises ZeroDivisionError on a zero divisor.      *)
(***************************************************************************)
ZeroDivisionError == [kind |-> "raise", exc |-> "ZeroDivisionError"]

\* A call of calculate_thermal_diffusivity, as the caller sees it.
calculate_thermal_diffusivity_call(thermal_conductivity, volumetric_heat_capacity) ==
    IF volumetric_heat_capacity = 0 THEN ZeroDivisionError
    ELSE Num(calculate_thermal_diffusivity(thermal_conductivity, volumetric_heat_capacity))

\* A call of hatch_amplitude_method, as the caller sees it: the amplitude tests
\* of lines 80-87 come before the division by depth_difference of line 90.
hatch_amplitude_method_call(amplitude_shallow, amplitude_deep, depth_difference, thermal_diffusivity, angular_frequency) ==
    IF amplitude_deep <= 0 \/ amplitude_shallow <= 0 THEN NaN
    ELSE IF Div(amplitude_shallow, amplitude_deep) <= Scale THEN NaN
    ELSE IF depth_difference = 0 THEN ZeroDivisionError
    ELSE hatch_amplitude_method(amplitude_shallow, amplitude_deep, depth_difference,
                                thermal_diffusivity, angular_frequency)

MaxCapacity == 4

\* Conductivities 1 and 2.
ConfigConductivities == { Scale, 2 * Scale }

\* Heat capacities -1, 0, 1, ..., MaxCapacity.
ConfigCapacities == { k * Scale : k \in -1 .. MaxCapacity }

\* Depth differences and diffusivities -1, 0 and 1.
ConfigSigned == { -Scale, 0, Scale }

ConfigInputs ==
    { [thermal_conductivity |-> l, volumetric_heat_capacity |-> c,
       amplitude_shallow |-> 3 * Scale, amplitude_deep |-> Scale,
       depth_difference |-> dz, thermal_diffusivity |-> al,
       angular_frequency |-> 4 * Scale] :
      l \in ConfigConductivities, c \in ConfigCapacities,
      dz \in ConfigSigned, al \in ConfigSigned }

InitConfig ==
    /\ args \in ConfigInputs
    /\ op = "none"
    /\ ret = NoReturn
    /\ synth = NoSynth
    /\ prev = NoCall

CallThermalDiffusivity ==
    /\ op = "none"
    /\ op' = "calculate_thermal_diffusivity"
    /\ ret' = calculate_thermal_diffusivity_call(args.thermal_conductivity,
                                                 args.volumetric_heat_capacity)
    /\ UNCHANGED <<args, synth, prev>>

ConfigHatchAmplitude ==
    /\ op = "none"
    /\ op' = "hatch_amplitude_method"
    /\ ret' = hatch_amplitude_method_call(args.amplitude_shallow, args.amplitude_deep,
                                          args.depth_difference,
                                          args.thermal_diffusivity,
                                          args.angular_frequency)
    /\ UNCHANGED <<args, synth, prev>>

\* luce_method does not divide by depth_difference.
ConfigLuce ==
    /\ op = "none"
    /\ op' = "luce_method"
    /\ ret' = luce_method(args.amplitude_shallow, args.amplitude_deep,
                          args.depth_difference, args.angular_frequency)
    /\ UNCHANGED <<args, synth, prev>>

NextConfig ==
    \/ CallThermalDiffusivity
    \/ ConfigHatchAmplitude
    \/ ConfigLuce

SpecConfig == InitConfig /\ [][NextConfig]_vars

(***************************************************************************)
(* Pairs of calls of calculate_thermal_diffusivity on Python floats taken  *)
(* exactly (IEEE 754 binary64, round to nearest, ties to even).  A float   *)
(* x >= 0 is the record [kind |-> "float", m |-> <<hi, lo>>, e |-> e] with *)
(* x = (hi * 2^27 + lo) * 2^e, that is math.ldexp(hi * 2**27 + lo, e): the *)
(* significand is below 2^53, and at least 2^52 unless e = -1074 (the      *)
(* subnormal floats and 0.0).                                              *)
(***************************************************************************)
\* The significand is held in two limbs below 2^27.
Limb == 2 ^ 27
\* The exponent of the subnormal floats: 2^-1074 is the smallest float above 0.
MinExp == -1074
\* The exponent of the largest floats: sys.float_info.max = (2^53 - 1) * 2^971.
MaxExp == 971

TwoTo52 == <<2 ^ 25, 0>>
TwoTo53 == <<2 ^ 26, 0>>

BigLess(a, b) == a[1] < b[1] \/ (a[1] = b[1] /\ a[2] < b[2])

\* a - b, a >= b.
BigSub(a, b) ==
    IF a[2] >= b[2] THEN <<a[1] - b[1], a[2] - b[2]>>
    ELSE <<a[1] - b[1] - 1, a[2] + Limb - b[2]>>

\* 2 * a
BigDouble(a) == <<2 * a[1] + (2 * a[2]) \div Limb, (2 * a[2]) % Limb>>

\* a + 1
BigSucc(a) == IF a[2] + 1 = Limb THEN <<a[1] + 1, 0>> ELSE <<a[1], a[2] + 1>>

Float(m, e) == [kind |-> "float", m |-> m, e |-> e]
Infinity == [kind |-> "inf"]

\* The same number with a significand of 53 bits, whatever the exponent (m > 0).
RECURSIVE normalise(_)
normalise(x) ==
    IF BigLess(x.m, TwoTo52) THEN normalise(Float(BigDouble(x.m), x.e - 1)) ELSE x

\* n further bits of the quotient after the bits p.q of the quotient left the
\* remainder p.r < d: the quotient and the remainder then.
RECURSIVE quotient_bits(_, _, _)
quotient_bits(p, d, n) ==
    IF n = 0 THEN p
    ELSE LET r2 == BigDouble(p.r)
         IN  IF BigLess(r2, d)
             THEN quotient_bits([q |-> BigDouble(p.q), r |-> r2], d, n - 1)
             ELSE quotient_bits([q |-> BigSucc(BigDouble(p.q)), r |-> BigSub(r2, d)],
                                d, n - 1)

\* The quotient q with remainder r of divisor d, to the nearest, ties to even.
round_half_even(q, r, d) ==
    LET r2 == BigDouble(r)
    IN  IF BigLess(d, r2) \/ (r2 = d /\ q[2] % 2 = 1) THEN BigSucc(q) ELSE q

\* The float quotient x / y of floats x, y > 0: the exact quotient rounded once
\* to 53 bits, or to the multiple of 2^-1074 next to it when it is below 2^-1022.
float_div(x, y) ==
    LET nx == normalise(x)
        ny == normalise(y)
        below == BigLess(nx.m, ny.m)
        s == IF below THEN 53 ELSE 52
        normal == nx.e - ny.e - s >= MinExp
        e == IF normal THEN nx.e - ny.e - s ELSE MinExp
        n == IF normal THEN s ELSE nx.e - ny.e - MinExp
        whole == IF below THEN [q |-> <<0, 0>>, r |-> nx.m]
                 ELSE [q |-> <<0, 1>>, r |-> BigSub(nx.m, ny.m)]
        bits == quotient_bits(whole, ny.m, n)
        m == IF n >= 0 THEN round_half_even(bits.q, bits.r, ny.m)
             ELSE IF n = -1 /\ BigLess(ny.m, nx.m) THEN <<0, 1>>
             ELSE <<0, 0>>
    IN  IF m = TwoTo53
        THEN (IF e + 1 > MaxExp THEN Infinity ELSE Float(TwoTo52, e + 1))
        ELSE IF e > MaxExp THEN Infinity
        ELSE Float(m, e)

\* x < y for floats x, y >= 0.
float_less(x, y) == x.e < y.e \/ (x.e = y.e /\ BigLess(x.m, y.m))

\* The float 0.0
Zero == Float(<<0, 0>>, MinExp)

\* thermal_conductivity / volumetric_heat_capacity, both floats > 0.
calculate_thermal_diffusivity_binary64(thermal_conductivity, volumetric_heat_capacity) ==
    float_div(thermal_conductivity, volumetric_heat_capacity)

\* The float n * 2^e, for 0 < n < 2^27.
Dyadic(n, e) == normalise(Float(<<0, n>>, e))

\* The float k units of the last place above x.
Ulps(x, k) == Float(<<x.m[1], x.m[2] + k>>, x.e)

MaxUlps == 2

\* Conductivities: 5e-324 (the smallest float above 0); 1.0 and 1.5 and the
\* MaxUlps floats next above each; 1.6000000000000005 and 1.6000000000000008
\* (0x1.999999999999cp+0 and 0x1.999999999999dp+0); and 2.0.
FloatConductivities ==
    { Float(<<0, 1>>, MinExp), Dyadic(2, 0),
      Float(<<53687091, 26843548>>, -52), Float(<<53687091, 26843549>>, -52) }
      \cup { Ulps(Dyadic(1, 0), k) : k \in 0 .. MaxUlps }
      \cup { Ulps(Dyadic(3, -1), k) : k \in 0 .. MaxUlps }

\* Heat capacities 0.75 and 1.0, 2.0, ..., MaxCapacity.
FloatCapacities == { Dyadic(3, -2) } \cup { Dyadic(k, 0) : k \in 1 .. MaxCapacity }

FloatInputs ==
    { [thermal_conductivity |-> l, volumetric_heat_capacity |-> c] :
      l \in FloatConductivities, c \in FloatCapacities }

InitFloat ==
    /\ args \in FloatInputs
    /\ op = "none"
    /\ ret = NoReturn
    /\ synth = NoSynth
    /\ prev = NoCall

CallThermalDiffusivityFloat ==
    /\ op = "none"
    /\ op' = "calculate_thermal_diffusivity"
    /\ ret' = calculate_thermal_diffusivity_binary64(args.thermal_conductivity,
                                                     args.volumetric_heat_capacity)
    /\ UNCHANGED <<args, synth, prev>>

\* A second call, with another conductivity and heat capacity.
CallThermalDiffusivityAgain ==
    /\ op = "calculate_thermal_diffusivity"
    /\ prev = NoCall
    /\ prev' = [kind |-> "call", args |-> args, ret |-> ret]
    /\ \E a \in FloatInputs :
         /\ args' = a
         /\ ret' = calculate_thermal_diffusivity_binary64(a.thermal_conductivity,
                                                          a.volumetric_heat_capacity)
    /\ op' = "calculate_thermal_diffusivity"
    /\ UNCHANGED synth

NextFloat ==
    \/ CallThermalDiffusivityFloat
    \/ CallThermalDiffusivityAgain

SpecFloat == InitFloat /\ [][NextFloat]_vars

(***************************************************************************)
(* compute_fft and extract_dominant_frequency, on series of 4 or 8         *)
(* samples: the angles of their transforms are multiples of 45 degrees,    *)
(* whose sines are 0, +-1 and +-sqrt(1/2).  Frequencies are in Hz.          *)
(***************************************************************************)
\* sin(m * 45 degrees), m = 0 .. 7, at index m + 1.
SinEighths == << 0, 707107, Scale, 707107, 0, -707107, -Scale, -707107 >>

sin_eighths(m) == SinEighths[(m % 8) + 1]

cos_eighths(m) == sin_eighths(m + 2)

RECURSIVE SeqSum(_)
SeqSum(s) == IF s = << >> THEN 0 ELSE Head(s) + SeqSum(Tail(s))

\* np.mean
np_mean(values) == Div(SeqSum(values), Len(values) * Scale)

\* scipy.fft.fft: bin b (0 .. n - 1) of y, as real and imaginary part.
fft_bin(y, b) ==
    LET n == Len(y)
        step == 8 \div n
    IN  [re |-> SeqSum([j \in 1 .. n |-> Mul(y[j], cos_eighths(b * (j - 1) * step))]),
         im |-> -SeqSum([j \in 1 .. n |-> Mul(y[j], sin_eighths(b * (j - 1) * step))])]

\* np.abs of a complex number.
np_abs(z) == Sqrt(Mul(z.re, z.re) + Mul(z.im, z.im))

\* scipy.fft.fftfreq(n, d)[i] for i = 0 .. n - 1, given 1 / d: the bins
\* 0, 1, ..., (n - 1) div 2, then -(n div 2), ..., -1, times 1 / (n d).
fftfreq(n, rate, i) ==
    LET k == IF i <= (n - 1) \div 2 THEN i ELSE i - n
    IN  Sgn(k) * Div(Abs(k) * rate, n * Scale)

\* The indices (from 0) of a sequence's elements that satisfy xf > 0, in order.
positive_freq_idx(n, rate) ==
    LET RECURSIVE from(_)
        from(i) == IF i >= n THEN << >>
                   ELSE IF fftfreq(n, rate, i) > 0 THEN <<i>> \o from(i + 1)
                   ELSE from(i + 1)
    IN  from(0)

compute_fft(temperature_series, sampling_rate) ==
    LET n == Len(temperature_series)
        mean == np_mean(temperature_series)
        temp_detrended == [j \in 1 .. n |-> temperature_series[j] - mean]
        idx == positive_freq_idx(n, sampling_rate)
    IN  [kind |-> "fft",
         frequencies |-> [p \in 1 .. Len(idx) |-> fftfreq(n, sampling_rate, idx[p])],
         amplitudes |-> [p \in 1 .. Len(idx) |->
                           Mul(Div(2 * Scale, n * Scale),
                               np_abs(fft_bin(temp_detrended, idx[p])))]]

\* np.argmax: the first index (from 1 here) of the largest element.
np_argmax(values) ==
    CHOOSE i \in 1 .. Len(values) :
        /\ \A j \in 1 .. Len(values) : values[j] <= values[i]
        /\ \A j \in 1 .. i - 1 : values[j] < values[i]

\* Mutant: the largest element is looked for among the frequencies, not the
\* amplitudes.
extract_dominant_frequency_of_freqs(temperature_series, sampling_rate) ==
    LET spectrum == compute_fft(temperature_series, sampling_rate)
    IN  Num(spectrum.frequencies[np_argmax(spectrum.frequencies)])

extract_dominant_frequency(temperature_series, sampling_rate) ==
    LET spectrum == compute_fft(temperature_series, sampling_rate)
        dominant_idx == np_argmax(spectrum.amplitudes)
    IN  Num(spectrum.frequencies[dominant_idx])

MaxFftAmp == 3

\* Numbers of samples.
FftLengths == { 4, 8 }

\* A series of n samples: mean + amplitude sin(2 pi cycles j / n + phase), the
\* phase in eighths of a turn, plus an overtone of amplitude `overtone` at twice
\* the frequency.
sinusoid(n, mean, amplitude, cycles, phase, overtone) ==
    [j \in 1 .. n |->
        mean + Mul(amplitude, sin_eighths(cycles * (j - 1) * (8 \div n) + phase))
             + Mul(overtone, sin_eighths(2 * cycles * (j - 1) * (8 \div n) + 1))]

FftInputs ==
    { [temperature_series |-> sinusoid(n, mean, a * Scale, c, ph, ov),
       sampling_rate |-> sr * Scale,
       n |-> n, cycles |-> c, amplitude |-> a * Scale, overtone |-> ov] :
      n \in FftLengths, mean \in {0, 20 * Scale}, a \in 1 .. MaxFftAmp,
      c \in 1 .. 4, ph \in {0, 1, 2}, ov \in {0, Scale \div 2}, sr \in {4, 8} }

InitFft ==
    /\ args \in { a \in FftInputs : 2 * a.cycles <= a.n }
    /\ op = "none"
    /\ ret = NoReturn
    /\ synth = NoSynth
    /\ prev = NoCall

CallComputeFft ==
    /\ op = "none"
    /\ op' = "compute_fft"
    /\ ret' = compute_fft(args.temperature_series, args.sampling_rate)
    /\ UNCHANGED <<args, synth, prev>>

CallExtractDominantFrequency ==
    /\ op = "none"
    /\ op' = "extract_dominant_frequency"
    /\ ret' = extract_dominant_frequency(args.temperature_series, args.sampling_rate)
    /\ UNCHANGED <<args, synth, prev>>

NextFft ==
    \/ CallComputeFft
    \/ CallExtractDominantFrequency

SpecFft == InitFft /\ [][NextFft]_vars

(***************************************************************************)
(* A caller that calls one function of the bank twice, the second time     *)
(* with some of the arguments changed, and keeps the first call in prev.   *)
(***************************************************************************)
MaxShift == 2

\* Amplitudes with Ar > 1, Ar <= 1 and non-positive values among the pairs.
TwoAmplitudesShallow == { -Scale, 2 * Scale, 3 * Scale }
TwoAmplitudesDeep == { 0, Scale, 3 * Scale }

\* Phases of the deep sensor: no lag, one and three radians, a full turn.
TwoPhasesDeep == { 0, Scale, 3 * Scale, TwoPi }

TwoInputs ==
    { a \in Inputs :
        /\ a.amplitude_shallow \in TwoAmplitudesShallow
        /\ a.amplitude_deep \in TwoAmplitudesDeep
        /\ a.phase_deep \in TwoPhasesDeep
        /\ a.depth_difference = Scale
        /\ a.thermal_conductivity # Sand.lambda }

\* The functions that are called twice.
TwoFunctions ==
    { "hatch_phase_method", "keery_method", "mccallum_method",
      "calculate_phase_shift", "calculate_vflux_all_methods" }

\* The call of the function named f on the record a of arguments.
call_function(f, a) ==
    CASE f = "hatch_phase_method" ->
           hatch_phase_method(a.phase_shallow, a.phase_deep, a.depth_difference,
                              a.thermal_diffusivity, a.angular_frequency,
                              a.thermal_conductivity, a.heat_capacity_water)
      [] f = "keery_method" ->
           keery_method(a.amplitude_shallow, a.amplitude_deep, a.phase_shallow,
                        a.phase_deep, a.depth_difference, a.thermal_diffusivity,
                        a.angular_frequency, a.thermal_conductivity,
                        a.heat_capacity_water, a.heat_capacity_sediment)
      [] f = "mccallum_method" ->
           mccallum_method(a.amplitude_shallow, a.amplitude_deep, a.phase_shallow,
                           a.phase_deep, a.depth_difference, a.thermal_diffusivity,
                           a.angular_frequency)
      [] f = "calculate_phase_shift" ->
           Num(calculate_phase_shift(a.phase_shallow, a.phase_deep))
      [] f = "calculate_vflux_all_methods" ->
           calculate_vflux_all_methods(a.amplitude_shallow, a.amplitude_deep,
                                       a.phase_shallow, a.phase_deep,
                                       a.depth_difference, a.thermal_conductivity,
                                       a.heat_capacity_sediment,
                                       a.heat_capacity_water, a.angular_frequency)

InitTwo ==
    /\ args \in TwoInputs
    /\ op = "none"
    /\ ret = NoReturn
    /\ synth = NoSynth
    /\ prev = NoCall

FirstCall ==
    /\ op = "none"
    /\ \E f \in TwoFunctions :
         /\ op' = f
         /\ ret' = call_function(f, args)
    /\ UNCHANGED <<args, synth, prev>>

\* The second call of the same function, on the arguments changed.
SecondCall(changed) ==
    /\ op # "none"
    /\ prev = NoCall
    /\ prev' = [kind |-> "call", args |-> args, ret |-> ret]
    /\ args' = changed
    /\ ret' = call_function(op, changed)
    /\ UNCHANGED <<op, synth>>

\* phase_shallow + 2 pi k
ShiftPhaseShallow ==
    \E k \in (-MaxShift .. MaxShift) \ {0} :
        SecondCall([args EXCEPT !.phase_shallow = @ + k * TwoPi])

\* phase_deep + 2 pi k
ShiftPhaseDeep ==
    \E k \in (-MaxShift .. MaxShift) \ {0} :
        SecondCall([args EXCEPT !.phase_deep = @ + k * TwoPi])

ChangePhases ==
    \E ps \in PhasesShallow, pd \in TwoPhasesDeep :
        /\ <<ps, pd>> # <<args.phase_shallow, args.phase_deep>>
        /\ SecondCall([args EXCEPT !.phase_shallow = ps, !.phase_deep = pd])

ChangeAmplitudes ==
    \E as \in TwoAmplitudesShallow, ad \in TwoAmplitudesDeep :
        /\ <<as, ad>> # <<args.amplitude_shallow, args.amplitude_deep>>
        /\ SecondCall([args EXCEPT !.amplitude_shallow = as, !.amplitude_deep = ad])

ChangeFrequency ==
    \E w \in Frequencies \ {args.angular_frequency} :
        SecondCall([args EXCEPT !.angular_frequency = w])

NextTwo ==
    \/ FirstCall
    \/ ShiftPhaseShallow
    \/ ShiftPhaseDeep
    \/ ChangePhases
    \/ ChangeAmplitudes
    \/ ChangeFrequency

SpecTwo == InitTwo /\ [][NextTwo]_vars

(***************************************************************************)
(* The normalization loops of calculate_phase_shift, hatch_phase_method,   *)
(* keery_method and mccallum_method, statement by statement.  op is the    *)
(* position in the function, ret.v the local delta_phi (delta_phase_total) *)
(* and prev.raw the difference the loops started from.  The phases are     *)
(* floats: above 2^56 the floats are 16 or more apart, so that a step of  *)
(* 2 pi towards zero rounds back to where it started.                      *)
(***************************************************************************)
\* A float of magnitude above 2^56, such as 1e300.
Huge == 2 * 10 ^ 9

\* The float sum x + y of a phase difference x and the step y of a loop, 2 pi
\* for x < 0 and -2 pi for x > 0.
float_add(x, y) == IF Abs(x) >= Huge THEN x ELSE x + y

\* The float difference phase_deep - phase_shallow.
float_sub(x, y) ==
    IF Abs(x) >= Huge /\ Abs(y) >= Huge THEN (IF x = y THEN 0 ELSE x)
    ELSE IF Abs(x) >= Huge THEN x
    ELSE IF Abs(y) >= Huge THEN -y
    ELSE x - y

NormFunctions ==
    { "calculate_phase_shift", "hatch_phase_method", "keery_method", "mccallum_method" }

\* The condition of the first while loop of f.
first_while(f, delta_phi) ==
    IF f = "calculate_phase_shift" THEN delta_phi > Pi ELSE delta_phi < 0

\* The body of the first while loop of f.
first_body(f, delta_phi) ==
    IF f = "calculate_phase_shift" THEN float_add(delta_phi, -TwoPi)
    ELSE float_add(delta_phi, TwoPi)

\* The condition of the second while loop of f; keery_method has none.
second_while(f, delta_phi) ==
    CASE f = "calculate_phase_shift" -> delta_phi < -Pi
      [] f = "keery_method" -> FALSE
      [] OTHER -> delta_phi > TwoPi

\* The body of the second while loop of f.
second_body(f, delta_phi) ==
    IF f = "calculate_phase_shift" THEN float_add(delta_phi, TwoPi)
    ELSE float_add(delta_phi, -TwoPi)

\* Phases: those of the harmonic fits, and a huge float of either sign.
NormInputs ==
    { [function |-> f, phase_shallow |-> ps, phase_deep |-> pd] :
      f \in NormFunctions, ps \in HarmPhasesShallow,
      pd \in HarmPhasesDeep \cup { Huge, -Huge } }

InitNorm ==
    /\ args \in NormInputs
    /\ op = "none"
    /\ ret = NoReturn
    /\ synth = NoSynth
    /\ prev = NoCall

\* delta_phi = phase_deep - phase_shallow
ComputeDifference ==
    /\ op = "none"
    /\ op' = "first_while"
    /\ ret' = Num(float_sub(args.phase_deep, args.phase_shallow))
    /\ prev' = [kind |-> "loop", raw |-> float_sub(args.phase_deep, args.phase_shallow)]
    /\ UNCHANGED <<args, synth>>

\* while delta_phi < 0 (> np.pi): the condition holds.
FirstLoopEnter ==
    /\ op = "first_while"
    /\ first_while(args.function, ret.v)
    /\ op' = "first_body"
    /\ UNCHANGED <<args, ret, synth, prev>>

\* delta_phi += 2 * np.pi (-= 2 * np.pi), then back to the condition.
FirstLoopBody ==
    /\ op = "first_body"
    /\ ret' = Num(first_body(args.function, ret.v))
    /\ op' = "first_while"
    /\ UNCHANGED <<args, synth, prev>>

FirstLoopExit ==
    /\ op = "first_while"
    /\ ~first_while(args.function, ret.v)
    /\ op' = "second_while"
    /\ UNCHANGED <<args, ret, synth, prev>>

\* while delta_phi > 2 * np.pi (< -np.pi): the condition holds.
SecondLoopEnter ==
    /\ op = "second_while"
    /\ second_while(args.function, ret.v)
    /\ op' = "second_body"
    /\ UNCHANGED <<args, ret, synth, prev>>

\* delta_phi -= 2 * np.pi (+= 2 * np.pi), then back to the condition.
SecondLoopBody ==
    /\ op = "second_body"
    /\ ret' = Num(second_body(args.function, ret.v))
    /\ op' = "second_while"
    /\ UNCHANGED <<args, synth, prev>>

SecondLoopExit ==
    /\ op = "second_while"
    /\ ~second_while(args.function, ret.v)
    /\ op' = "normalized"
    /\ UNCHANGED <<args, ret, synth, prev>>

NextNorm ==
    \/ ComputeDifference
    \/ FirstLoopEnter
    \/ FirstLoopBody
    \/ FirstLoopExit
    \/ SecondLoopEnter
    \/ SecondLoopBody
    \/ SecondLoopExit

SpecNorm == InitNorm /\ [][NextNorm]_vars

\* The interpreter goes on executing the function.
FairNorm == SpecNorm /\ WF_vars(NextNorm)

(***************************************************************************)
(* Two threads that evaluate calculate_vflux_all_methods, each on its own  *)
(* sensor pair, interleaved at the calls of the methods.  args[w] are the  *)
(* arguments of thread w, op[w] its position, ret[w] the frame of its call *)
(* (the locals alpha and results, and the dictionary returned) and prev[w] *)
(* what its first call returned, once it calls again.  The five entries of *)
(* results are evaluated in any order.                                     *)
(***************************************************************************)
Workers == { 1, 2 }

\* Pairs with amplitudes 3 over 1 and 3 over -1, a lag of one radian, over the
\* two media of diffusivity 1 and 2.
ConcInputs ==
    { a \in Inputs :
        /\ a.amplitude_shallow = 3 * Scale
        /\ a.amplitude_deep \in { -Scale, Scale }
        /\ a.phase_shallow = 0
        /\ a.phase_deep = Scale
        /\ a.depth_difference = Scale
        /\ a.thermal_conductivity # Sand.lambda
        /\ a.angular_frequency = TwoPi }

\* A frame before the call has started.
NoFrame == [alpha |-> 0, results |-> << >>, out |-> NoReturn]

\* Mutant: alpha is a module-level variable, which holds what the first thread
\* to get there has stored.
alpha_module_level(frames, w) ==
    LET stored == { v \in DOMAIN frames : frames[v].alpha # 0 }
    IN  frames[CHOOSE v \in stored : \A u \in stored : v <= u].alpha

\* The local alpha of the call of thread w.
alpha_local(frames, w) == frames[w].alpha

\* One entry of the results dictionary, computed with the alpha given.
results_entry(method, a, alpha) ==
    CASE method = "mccallum" ->
           mccallum_method(a.amplitude_shallow, a.amplitude_deep, a.phase_shallow,
                           a.phase_deep, a.depth_difference, alpha,
                           a.angular_frequency)
      [] method = "hatch_amplitude" ->
           hatch_amplitude_method(a.amplitude_shallow, a.amplitude_deep,
                                  a.depth_difference, alpha, a.angular_frequency)
      [] method = "hatch_phase" ->
           hatch_phase_method(a.phase_shallow, a.phase_deep, a.depth_difference,
                              alpha, a.angular_frequency, a.thermal_conductivity,
                              a.heat_capacity_water)
      [] method = "keery" ->
           keery_method(a.amplitude_shallow, a.amplitude_deep, a.phase_shallow,
                        a.phase_deep, a.depth_difference, alpha,
                        a.angular_frequency, a.thermal_conductivity,
                        a.heat_capacity_water, a.heat_capacity_sediment)
      [] method = "luce" ->
           luce_method(a.amplitude_shallow, a.amplitude_deep, a.depth_difference,
                       a.angular_frequency)

InitConc ==
    /\ args \in [Workers -> ConcInputs]
    /\ op = [w \in Workers |-> "idle"]
    /\ ret = [w \in Workers |-> NoFrame]
    /\ synth = NoSynth
    /\ prev = [w \in Workers |-> NoCall]

\* alpha = calculate_thermal_diffusivity(thermal_conductivity, heat_capacity_sediment)
EnterCall(w) ==
    /\ op[w] = "idle"
    /\ op' = [op EXCEPT ![w] = "results"]
    /\ ret' = [ret EXCEPT ![w] =
                 [alpha |-> calculate_thermal_diffusivity(
                                args[w].thermal_conductivity,
                                args[w].heat_capacity_sediment),
                  results |-> << >>,
                  out |-> NoReturn]]
    /\ UNCHANGED <<args, synth, prev>>

\* One of the five calls of the dictionary literal.
EvaluateMethod(w) ==
    /\ op[w] = "results"
    /\ \E method \in Methods \ DOMAIN ret[w].results :
         ret' = [ret EXCEPT ![w].results =
                   [m \in (DOMAIN @) \cup {method} |->
                      IF m = method
                      THEN results_entry(method, args[w], alpha_local(ret, w))
                      ELSE @[m]]]
    /\ UNCHANGED <<args, op, synth, prev>>

\* The conversion to mm/day and the return.
ReturnDict(w) ==
    /\ op[w] = "results"
    /\ DOMAIN ret[w].results = Methods
    /\ op' = [op EXCEPT ![w] = "returned"]
    /\ ret' = [ret EXCEPT ![w].out =
                 [kind |-> "dict",
                  flux_m_s |-> ret[w].results,
                  flux_mm_day |->
                      [method \in Methods |-> to_mm_day(ret[w].results[method])],
                  thermal_diffusivity |-> alpha_local(ret, w)]]
    /\ UNCHANGED <<args, synth, prev>>

\* The same call once more.
CallAgain(w) ==
    /\ op[w] = "returned"
    /\ prev[w] = NoCall
    /\ prev' = [prev EXCEPT ![w] = [kind |-> "call", args |-> args[w],
                                    ret |-> ret[w].out]]
    /\ op' = [op EXCEPT ![w] = "idle"]
    /\ ret' = [ret EXCEPT ![w] = NoFrame]
    /\ UNCHANGED <<args, synth>>

NextConc ==
    \E w \in Workers :
        \/ EnterCall(w)
        \/ EvaluateMethod(w)
        \/ ReturnDict(w)
        \/ CallAgain(w)

SpecConc == InitConc /\ [][NextConc]_vars

(***************************************************************************)
(* Quantities the claims speak of, computed from the arguments.            *)
(***************************************************************************)
PositiveAmplitudes == args.amplitude_shallow > 0 /\ args.amplitude_deep > 0

\* Ar > 1, stated on the amplitudes themselves.
RatioAboveOne == PositiveAmplitudes /\ args.amplitude_shallow > args.amplitude_deep

\* ln(Ar)
LogRatio == Ln(Div(args.amplitude_shallow, args.amplitude_deep))

\* alpha / dz
AlphaOverDz == Div(args.thermal_diffusivity, args.depth_difference)

\* omega dz^2 / (4 alpha)
ConductiveTerm ==
    Div(Mul(args.angular_frequency, Mul(args.depth_difference, args.depth_difference)),
        4 * args.thermal_diffusivity)

\* The McCallum discriminant D = dA^2 + omega dz^2 / (4 alpha) - dphi^2.
Discriminant ==
    LET dphi == mccallum_delta_phi(args.phase_shallow, args.phase_deep)
    IN  Mul(LogRatio, LogRatio) + ConductiveTerm - Mul(dphi, dphi)

\* What hatch_amplitude_method returns for the arguments of the state.
HatchAmplitudeOfArgs ==
    hatch_amplitude_method(args.amplitude_shallow, args.amplitude_deep,
                           args.depth_difference, args.thermal_diffusivity,
                           args.angular_frequency)

\* phi_adv = dphi_total - phi_cond of Hatch-Phase.
AdvectiveLag ==
    hatch_phase_delta_total(args.phase_shallow, args.phase_deep) - Sqrt(ConductiveTerm)

(***************************************************************************)
(* Claims.                                                                 *)
(***************************************************************************)

\* C1: whenever both amplitudes are positive and the discriminant D is
\* negative, mccallum_method returns exactly what hatch_amplitude_method
\* returns for the same amplitudes, dz, alpha and omega, NaN included.
C1_FallbackEqualsHatchAmplitude ==
    (op = "mccallum_method" /\ PositiveAmplitudes /\ Discriminant < 0)
        => ret = HatchAmplitudeOfArgs

\* A fallback with Ar <= 1: McCallum returns the NaN of Hatch-Amplitude.
C1_Witness ==
    /\ op = "mccallum_method"
    /\ PositiveAmplitudes
    /\ Discriminant < 0
    /\ args.amplitude_shallow < args.amplitude_deep
    /\ IsNaN(ret)

\* C2 (as claimed): every method returns NaN where its equation has no
\* physical solution; for Hatch-Phase that is an advective lag <= 0.
C2_UndefinedIsNaN ==
    /\ (op = "hatch_amplitude_method" /\ ~RatioAboveOne) => IsNaN(ret)
    /\ (op = "luce_method" /\ ~RatioAboveOne) => IsNaN(ret)
    /\ (op = "keery_method" /\ ~PositiveAmplitudes) => IsNaN(ret)
    /\ (op = "mccallum_method" /\ ~PositiveAmplitudes) => IsNaN(ret)
    /\ (op = "mccallum_method" /\ PositiveAmplitudes /\ ~RatioAboveOne
          /\ Discriminant < 0) => IsNaN(ret)
    /\ (op = "hatch_phase_method" /\ AdvectiveLag <= 0) => IsNaN(ret)

\* C3: hatch_amplitude_method returns NaN whenever an amplitude is <= 0 or
\* amplitude_shallow <= amplitude_deep, and (alpha / dz) ln(Ar) otherwise.
C3_HatchAmplitudeCases ==
    op = "hatch_amplitude_method"
        => ret = IF RatioAboveOne THEN Num(Mul(AlphaOverDz, LogRatio)) ELSE NaN

\* Positive amplitudes with the deep one larger: NaN, not a negative flux.
C3_Witness ==
    /\ op = "hatch_amplitude_method"
    /\ PositiveAmplitudes
    /\ args.amplitude_shallow < args.amplitude_deep
    /\ IsNaN(ret)

\* C4: luce_method returns NaN whenever an amplitude is <= 0 or
\* amplitude_shallow <= amplitude_deep, and omega dz / (2 ln(Ar)) otherwise.
C4_LuceCases ==
    op = "luce_method"
        => ret = IF RatioAboveOne
                 THEN Num(Div(Mul(args.angular_frequency, args.depth_difference),
                              2 * LogRatio))
                 ELSE NaN

\* Positive amplitudes with the deep one larger: NaN, not a flux of flipped sign.
C4_Witness ==
    /\ op = "luce_method"
    /\ PositiveAmplitudes
    /\ args.amplitude_shallow < args.amplitude_deep
    /\ IsNaN(ret)

\* The naive value 4 alpha dphi / (omega dz^2) for the lag of the arguments.
NaiveValue ==
    Div(Mul(4 * args.thermal_diffusivity,
            hatch_phase_delta_total(args.phase_shallow, args.phase_deep)),
        Mul(args.angular_frequency,
            Mul(args.depth_difference, args.depth_difference)))

\* (phi_adv / dz) (2 lambda / Cw) for the arguments of the state.
CorrectedValue ==
    Div(Mul(Div(AdvectiveLag, args.depth_difference), 2 * args.thermal_conductivity),
        args.heat_capacity_water)

\* C5 (as claimed): with phi_adv = dphi_total - sqrt(omega dz^2 / (4 alpha)) > 0,
\* hatch_phase_method returns (phi_adv / dz) (2 lambda / Cw), and that result
\* is never the naive value 4 alpha dphi / (omega dz^2).
C5_NeverNaive ==
    (op = "hatch_phase_method" /\ AdvectiveLag > 0)
        => /\ ret = Num(CorrectedValue)
           /\ ret # Num(NaiveValue)

\* C5 (amended): with dphi_total the lag hatch_phase_method measures (the
\* difference phase_deep - phase_shallow brought into [0, 2 pi]) and phi_adv =
\* dphi_total - sqrt(omega dz^2 / (4 alpha)) > 0, hatch_phase_method returns
\* (phi_adv / dz) (2 lambda / Cw): the conductive lag is subtracted first.
C5_HatchPhaseCorrected ==
    (op = "hatch_phase_method" /\ AdvectiveLag > 0) => ret = Num(CorrectedValue)

\* The measured lag of test_hatch_corregido.py, 0.4828 rad over the sand: the
\* corrected flux is returned, and there it is not the naive value.
C5_Witness ==
    /\ op = "hatch_phase_method"
    /\ args.phase_shallow = 0
    /\ args.phase_deep = PhiDeepTest
    /\ args.thermal_conductivity = Sand.lambda
    /\ AdvectiveLag > 0
    /\ ret.kind = "num"
    /\ ret.v > 0
    /\ ret # Num(NaiveValue)

\* C8: with both amplitudes positive and D >= 0, mccallum_method returns
\* (alpha / dz) (dA + sqrt(D)), dphi being the lag the method measures.
C8_McCallumMainBranch ==
    (op = "mccallum_method" /\ PositiveAmplitudes /\ Discriminant >= 0)
        => ret = Num(Mul(AlphaOverDz, LogRatio + Sqrt(Discriminant)))

\* A main-branch call with a positive root.
C8_Witness ==
    /\ op = "mccallum_method"
    /\ PositiveAmplitudes
    /\ Discriminant > 0
    /\ ret.kind = "num"

\* C9: with both amplitudes positive, keery_method returns
\* (2 alpha / dz) (ln(Ar) + beta dz - dphi / (beta dz)), beta = sqrt(omega / (2 alpha)),
\* dphi being the total phase difference with no conductive lag subtracted.
C9_KeeryRawPhase ==
    (op = "keery_method" /\ PositiveAmplitudes)
        => LET beta == Sqrt(Div(args.angular_frequency, 2 * args.thermal_diffusivity))
               dphi == keery_delta_phi(args.phase_shallow, args.phase_deep)
           IN  ret = Num(Mul(Div(2 * args.thermal_diffusivity, args.depth_difference),
                             LogRatio + Mul(beta, args.depth_difference)
                               - Div(dphi, Mul(beta, args.depth_difference))))

\* A Keery call with a non-zero phase difference.
C9_Witness ==
    /\ op = "keery_method"
    /\ PositiveAmplitudes
    /\ args.phase_deep > args.phase_shallow
    /\ ret.kind = "num"
\* term2_inside < 0 for a record of arguments with positive amplitudes.
UsesFallback(a) ==
    mccallum_term2_inside(a.amplitude_shallow, a.amplitude_deep, a.phase_shallow,
                          a.phase_deep, a.depth_difference, a.thermal_diffusivity,
                          a.angular_frequency) < 0

\* |x - target| <= 1% of target.
WithinOnePercent(x, target) == 100 * Abs(x - target) <= Abs(target)

\* C6: a deep phase generated by the forward model of calcular_desfase_mccallum
\* for a flux v > 0, with a lag below 2 pi, gives v back from
\* hatch_phase_method within 1%; and the lag 0.4828 rad of
\* test_hatch_corregido.py gives 5.0 +- 0.5 mm/day (0.05 +- 0.005 dm/day).
C6_HatchPhaseRoundTrip ==
    /\ (op = "hatch_phase_method" /\ args.pair # <<0, 0>> /\ synth.v > 0
          /\ args.phase_deep - args.phase_shallow < TwoPi)
         => (ret.kind = "num" /\ WithinOnePercent(ret.v, synth.v))
    /\ (op = "hatch_phase_method" /\ args.pair = <<0, 0>>)
         => (ret.kind = "num" /\ Abs(ret.v - 50000) < 5000)

\* The repository's 5 mm/day recovered from the pair of sensors 1 and 2.
C6_Witness ==
    /\ IsRepositoryConfig
    /\ op = "hatch_phase_method"
    /\ args.pair = <<1, 2>>
    /\ args.phase_deep - args.phase_shallow < TwoPi
    /\ WithinOnePercent(ret.v, synth.v)

\* C7 (as claimed): hatch_amplitude_method on the amplitudes of a generated pair
\* of the repository's configuration returns the injected 5 mm/day within 1%.
C7_HatchAmplitudeRecoversFlux ==
    (IsRepositoryConfig /\ op = "hatch_amplitude_method" /\ args.pair # <<0, 0>>)
        => (ret.kind = "num" /\ WithinOnePercent(ret.v, synth.v))

\* C10 (as claimed): a fallback result and a result of the McCallum equation
\* itself are never the same value.
C10_FallbackDetectable ==
    (op = "mccallum_method" /\ prev # NoCall
       /\ UsesFallback(prev.args) /\ ~UsesFallback(args))
        => prev.ret # ret
\* The outcome of the i-th call of curve_fit made by the running function.
curve_fit_outcome(i) == prev.outcomes[i]

\* The fields of the record fit_harmonic_model documents.
ParamsFields == {"kind", "mean", "amplitude", "omega", "phase", "period_hours"}

\* C11 (as claimed): every amplitude fit_harmonic_model and analyze_sensor_pair
\* return is >= 0, and a fit that converged to B < 0 is returned as |B| with
\* the phase phi + pi (mod 2 pi).
C11_AmplitudeNonNegative ==
    /\ (op = "fit_harmonic_model" /\ ret # None)
         => /\ ret.amplitude >= 0
            /\ curve_fit_outcome(1).popt[2] < 0
                 => /\ ret.amplitude = -curve_fit_outcome(1).popt[2]
                    /\ calculate_phase_shift(curve_fit_outcome(1).popt[4] + Pi,
                                             ret.phase) = 0
    /\ (op = "analyze_sensor_pair" /\ ret # None)
         => (ret.A_shallow >= 0 /\ ret.A_deep >= 0)

\* C12 (as claimed): calculate_phase_shift returns a value in (-pi, pi].
C12_PhaseShiftHalfOpen ==
    op = "calculate_phase_shift" => (-Pi < ret.v /\ ret.v <= Pi)

\* C13: calculate_phase_shift(0, x) returns x itself for every x that
\* calculate_phase_shift returned, be it of calculate_phase_shift(0, y) or of
\* calculate_phase_shift(a, b): the normalization is idempotent.
C13_PhaseShiftIdempotent ==
    (op = "calculate_phase_shift" /\ prev # NoCall) => ret = prev.ret

\* A difference of more than a turn, normalized once and then again.
C13_Witness ==
    /\ op = "calculate_phase_shift"
    /\ prev # NoCall
    /\ prev.args.phase_deep - prev.args.phase_shallow > Pi + TwoPi
    /\ prev.args.phase_shallow # 0
    /\ ret = prev.ret

\* C17: fit_harmonic_model calls curve_fit with maxfev = 5000 and returns either
\* the complete record of parameters or None, None whenever curve_fit raised;
\* analyze_sensor_pair returns None whenever one of its two fits failed.
C17_FitFailureSurfaced ==
    /\ op = "fit_harmonic_model"
         => /\ curve_fit_outcome(1).maxfev = 5000
            /\ ret = None \/ (ret.kind = "params" /\ DOMAIN ret = ParamsFields)
            /\ curve_fit_outcome(1).kind = "raise" <=> ret = None
    /\ op = "analyze_sensor_pair"
         => ((\E i \in 1 .. 2 : curve_fit_outcome(i).kind = "raise") => ret = None)

\* The fit of the deep series ran out of evaluations: no record for the pair.
C17_Witness ==
    /\ op = "analyze_sensor_pair"
    /\ curve_fit_outcome(1).kind = "popt"
    /\ curve_fit_outcome(2).kind = "raise"
    /\ curve_fit_outcome(2).exc = "RuntimeError"
    /\ ret = None

\* C18: calculate_amplitude_ratio returns NaN whenever an amplitude is <= 0 and
\* ln(amplitude_shallow / amplitude_deep) otherwise: negative when the deep
\* amplitude is the larger, 0 when the two are equal.
C18_AmplitudeLogRatio ==
    op = "calculate_amplitude_ratio"
        => /\ ret = IF PositiveAmplitudes THEN Num(LogRatio) ELSE NaN
           /\ (PositiveAmplitudes /\ args.amplitude_shallow < args.amplitude_deep)
                => ret.v < 0
           /\ (PositiveAmplitudes /\ args.amplitude_shallow = args.amplitude_deep)
                => ret.v = 0

\* A deep amplitude above the shallow one: a negative log-ratio, not NaN.
C18_Witness ==
    /\ op = "calculate_amplitude_ratio"
    /\ PositiveAmplitudes
    /\ args.amplitude_shallow < args.amplitude_deep
    /\ ret.kind = "num"
    /\ ret.v < 0
\* C15: for dz, lambda, Cs, Cw, omega > 0 and any amplitudes and phases,
\* calculate_vflux_all_methods returns its dictionary, whose 'flux_m_s' has
\* exactly the keys mccallum, hatch_amplitude, hatch_phase, keery and luce, each
\* entry being what the method returns when called alone with alpha = lambda / Cs.
C15_AggregatorIndependent ==
    op = "calculate_vflux_all_methods"
        => /\ ret.kind = "dict"
           /\ DOMAIN ret.flux_m_s = Methods
           /\ ret.flux_m_s.mccallum
                = mccallum_method(args.amplitude_shallow, args.amplitude_deep,
                                  args.phase_shallow, args.phase_deep,
                                  args.depth_difference, args.thermal_diffusivity,
                                  args.angular_frequency)
           /\ ret.flux_m_s.hatch_amplitude = HatchAmplitudeOfArgs
           /\ ret.flux_m_s.hatch_phase
                = hatch_phase_method(args.phase_shallow, args.phase_deep,
                                     args.depth_difference, args.thermal_diffusivity,
                                     args.angular_frequency, args.thermal_conductivity,
                                     args.heat_capacity_water)
           /\ ret.flux_m_s.keery
                = keery_method(args.amplitude_shallow, args.amplitude_deep,
                               args.phase_shallow, args.phase_deep,
                               args.depth_difference, args.thermal_diffusivity,
                               args.angular_frequency, args.thermal_conductivity,
                               args.heat_capacity_water, args.heat_capacity_sediment)
           /\ ret.flux_m_s.luce
                = luce_method(args.amplitude_shallow, args.amplitude_deep,
                              args.depth_difference, args.angular_frequency)

\* Ar < 1: Hatch-Amplitude and Luce are undefined, Keery and Hatch-Phase are
\* computed all the same.
C15_Witness ==
    /\ op = "calculate_vflux_all_methods"
    /\ PositiveAmplitudes
    /\ args.amplitude_shallow < args.amplitude_deep
    /\ IsNaN(ret.flux_m_s.hatch_amplitude)
    /\ IsNaN(ret.flux_m_s.luce)
    /\ ret.flux_m_s.keery.kind = "num"
    /\ ret.flux_m_s.hatch_phase.kind = "num"
    /\ ret.flux_m_s.hatch_phase.v > 0

\* n * 1000 * 86400 for n in units of 1 / Scale, as hi * 10^9 + lo:
\* n = q * 10^4 + r gives n * 864 * 10^5 = q * 864 * 10^9 + r * 864 * 10^5.
TimesMmDay(n) ==
    LET q == Abs(n) \div 10 ^ 4
        r == Abs(n) % 10 ^ 4
    IN  [kind |-> "wide", sign |-> Sgn(n),
         hi |-> q * 864 + (r * 864) \div 10 ^ 4,
         lo |-> ((r * 864) % 10 ^ 4) * 10 ^ 5]

\* C16: in the result of calculate_vflux_all_methods, 'flux_mm_day' has the keys
\* of 'flux_m_s', each defined entry is the m/s value times 1000 * 86400 (sign
\* and zero kept), an entry is NaN exactly when the m/s value is, and
\* 'thermal_diffusivity' is lambda / Cs.
C16_UnitConversion ==
    op = "calculate_vflux_all_methods"
        => /\ DOMAIN ret.flux_mm_day = DOMAIN ret.flux_m_s
           /\ \A method \in DOMAIN ret.flux_m_s :
                /\ IsNaN(ret.flux_mm_day[method]) <=> IsNaN(ret.flux_m_s[method])
                /\ ~IsNaN(ret.flux_m_s[method])
                     => ret.flux_mm_day[method] = TimesMmDay(ret.flux_m_s[method].v)
           /\ ret.thermal_diffusivity
                = Div(args.thermal_conductivity, args.heat_capacity_sediment)

\* A negative Keery flux, a zero Hatch-Phase flux and an undefined Luce flux in
\* one result.
C16_Witness ==
    /\ op = "calculate_vflux_all_methods"
    /\ ret.flux_m_s.keery.kind = "num"
    /\ ret.flux_m_s.keery.v < 0
    /\ ret.flux_mm_day.keery.sign = -1
    /\ ret.flux_m_s.hatch_phase = Num(0)
    /\ ret.flux_mm_day.hatch_phase.sign = 0
    /\ IsNaN(ret.flux_mm_day.luce)
\* C14 (as claimed): a heat capacity <= 0 given to calculate_thermal_diffusivity,
\* or a depth difference or diffusivity <= 0 given to a flux method, fails the
\* call: it raises (or returns NaN) and never returns a finite number.
C14_NonPhysicalIsFatal ==
    /\ (op = "calculate_thermal_diffusivity" /\ args.volumetric_heat_capacity <= 0)
         => ret.kind \in {"raise", "nan"}
    /\ (op = "hatch_amplitude_method"
          /\ (args.depth_difference <= 0 \/ args.thermal_diffusivity <= 0))
         => ret.kind \in {"raise", "nan"}
    /\ (op = "luce_method" /\ args.depth_difference <= 0)
         => ret.kind \in {"raise", "nan"}

\* Two calls of calculate_thermal_diffusivity that returned; every input of
\* FloatInputs is a float > 0.
TwoDiffusivities ==
    /\ op = "calculate_thermal_diffusivity"
    /\ prev # NoCall

SameCapacity == prev.args.volumetric_heat_capacity = args.volumetric_heat_capacity

SameConductivity == prev.args.thermal_conductivity = args.thermal_conductivity

\* C19 (as claimed): for positive inputs calculate_thermal_diffusivity is
\* strictly increasing in the conductivity, strictly decreasing in the heat
\* capacity, and > 0.
C19_StrictlyMonotone ==
    TwoDiffusivities
        => /\ (SameCapacity
                 /\ float_less(prev.args.thermal_conductivity, args.thermal_conductivity))
                => float_less(prev.ret, ret)
           /\ (SameConductivity
                 /\ float_less(prev.args.volumetric_heat_capacity,
                               args.volumetric_heat_capacity))
                => float_less(ret, prev.ret)
           /\ float_less(Zero, ret)

\* The frequency of the sinusoid of the arguments, cycles * sampling_rate / n.
SignalFrequency == Div(args.cycles * args.sampling_rate, args.n * Scale)

\* The series is a single sinusoid about its mean.
PureSinusoid == args.overtone = 0

\* The sinusoid is below the Nyquist frequency sampling_rate / 2.
BelowNyquist == 2 * args.cycles < args.n

\* |x - f| <= 10% of f.
WithinTenPercent(x, f) == 10 * Abs(x - f) <= Abs(f)

\* compute_fft returns one amplitude per frequency and only frequencies > 0.
PositiveSpectrum ==
    op = "compute_fft"
        => /\ Len(ret.frequencies) = Len(ret.amplitudes)
           /\ \A p \in 1 .. Len(ret.frequencies) : ret.frequencies[p] > 0

\* extract_dominant_frequency returns the frequency of a bin of compute_fft
\* whose amplitude no other bin exceeds.
ReturnsLargestBin ==
    op = "extract_dominant_frequency"
        => LET spectrum == compute_fft(args.temperature_series, args.sampling_rate)
           IN  \E p \in 1 .. Len(spectrum.frequencies) :
                   /\ ret = Num(spectrum.frequencies[p])
                   /\ \A q \in 1 .. Len(spectrum.amplitudes) :
                          spectrum.amplitudes[q] <= spectrum.amplitudes[p]

\* C20 (as claimed): compute_fft returns strictly positive frequencies with one
\* amplitude each, extract_dominant_frequency returns the frequency of the
\* largest bin, and for a sinusoid of frequency f sampled over a whole number
\* of cycles that frequency is within 10% of f.
C20_DominantFrequency ==
    /\ PositiveSpectrum
    /\ ReturnsLargestBin
    /\ (op = "extract_dominant_frequency" /\ PureSinusoid)
         => WithinTenPercent(ret.v, SignalFrequency)

\* C20 (amended): the same, for a sinusoid of frequency f below the Nyquist
\* frequency sampling_rate / 2.
C20_DominantFrequencyBelowNyquist ==
    /\ PositiveSpectrum
    /\ ReturnsLargestBin
    /\ (op = "extract_dominant_frequency" /\ PureSinusoid /\ BelowNyquist)
         => WithinTenPercent(ret.v, SignalFrequency)

\* Two cycles in eight samples at 8 Hz: 2 Hz is returned.
C20_Witness ==
    /\ op = "extract_dominant_frequency"
    /\ PureSinusoid
    /\ args.n = 8 /\ args.cycles = 2 /\ args.sampling_rate = 8 * Scale
    /\ ret = Num(2 * Scale)
\* 0 <= x < 2 pi
InHalfOpenTurn(x) == 0 <= x /\ x < TwoPi

\* The lag a phase method substitutes into its equation for the arguments.
LagOfHatchPhase == hatch_phase_delta_total(args.phase_shallow, args.phase_deep)
LagOfKeery == keery_delta_phi(args.phase_shallow, args.phase_deep)
LagOfMcCallum == mccallum_delta_phi(args.phase_shallow, args.phase_deep)

\* C23 (as claimed): the phase lag that hatch_phase_method, keery_method and
\* mccallum_method substitute into their equations, after their own
\* normalization of phase_deep - phase_shallow, lies in [0, 2 pi).
C23_LagInHalfOpenTurn ==
    /\ op = "hatch_phase_method" => InHalfOpenTurn(LagOfHatchPhase)
    /\ (op = "keery_method" /\ PositiveAmplitudes) => InHalfOpenTurn(LagOfKeery)
    /\ (op = "mccallum_method" /\ PositiveAmplitudes) => InHalfOpenTurn(LagOfMcCallum)
\* C26: for dz, alpha, omega > 0, mccallum_method returns NaN if and only if an
\* amplitude is <= 0, or the discriminant D is negative and Ar <= 1; with
\* Ar <= 1 and D >= 0 it returns the number (alpha / dz) (dA + sqrt(D)), dA <= 0.
C26_McCallumUndefinedSet ==
    op = "mccallum_method"
        => /\ IsNaN(ret) <=> (~PositiveAmplitudes
                                \/ (Discriminant < 0 /\ ~RatioAboveOne))
           /\ (PositiveAmplitudes /\ ~RatioAboveOne /\ Discriminant >= 0)
                => (/\ LogRatio <= 0
                    /\ ret = Num(Mul(AlphaOverDz, LogRatio + Sqrt(Discriminant))))

\* A deep amplitude above the shallow one with D >= 0: a number, here negative.
C26_Witness ==
    /\ op = "mccallum_method"
    /\ PositiveAmplitudes
    /\ args.amplitude_shallow < args.amplitude_deep
    /\ Discriminant >= 0
    /\ ret.kind = "num"
    /\ ret.v < 0

\* The entries of the one-sided methods in the dictionary of the aggregator.
OneSided == {"hatch_amplitude", "hatch_phase", "luce"}

\* C27: for dz, alpha, omega, lambda, Cw > 0, hatch_phase_method never returns
\* a negative value, hatch_amplitude_method and luce_method return NaN or a
\* strictly positive value; in the aggregator's dictionary a negative flux
\* appears only under 'keery' and 'mccallum'.
C27_OneSidedSign ==
    /\ op = "hatch_phase_method" => (ret.kind = "num" /\ ret.v >= 0)
    /\ op \in {"hatch_amplitude_method", "luce_method"}
         => (IsNaN(ret) \/ (ret.kind = "num" /\ ret.v > 0))
    /\ op = "calculate_vflux_all_methods"
         => \A method \in OneSided :
                \/ IsNaN(ret.flux_m_s[method])
                \/ ret.flux_m_s[method].v > 0
                \/ (method = "hatch_phase" /\ ret.flux_m_s[method].v = 0)

\* An upward flow under 'keery' and 'mccallum', beside a positive Hatch-Phase
\* and the NaN of Hatch-Amplitude and Luce.
C27_Witness ==
    /\ op = "calculate_vflux_all_methods"
    /\ ret.flux_m_s["hatch_phase"].kind = "num" /\ ret.flux_m_s["hatch_phase"].v > 0
    /\ IsNaN(ret.flux_m_s["hatch_amplitude"]) /\ IsNaN(ret.flux_m_s["luce"])
    /\ ret.flux_m_s["keery"].kind = "num" /\ ret.flux_m_s["keery"].v < 0
    /\ ret.flux_m_s["mccallum"].kind = "num" /\ ret.flux_m_s["mccallum"].v < 0

\* C28: for dz, alpha, omega > 0 and Ar > 1, mccallum_method returns at least
\* what hatch_amplitude_method returns for the same inputs, and the same
\* exactly when D <= 0.
C28_McCallumAboveHatchAmplitude ==
    (op = "calculate_vflux_all_methods" /\ RatioAboveOne)
        => LET mccallum == ret.flux_m_s["mccallum"]
               hatch_amplitude == ret.flux_m_s["hatch_amplitude"]
           IN  /\ mccallum.kind = "num" /\ hatch_amplitude.kind = "num"
               /\ mccallum.v >= hatch_amplitude.v
               /\ (mccallum.v = hatch_amplitude.v) <=> (Discriminant <= 0)

\* A positive discriminant: McCallum strictly above Hatch-Amplitude.
C28_Witness ==
    /\ op = "calculate_vflux_all_methods"
    /\ RatioAboveOne
    /\ Discriminant > 0
    /\ ret.flux_m_s["mccallum"].v > ret.flux_m_s["hatch_amplitude"].v
\* The call in prev had the same arguments but for the fields named.
SameBut(fields) ==
    /\ prev # NoCall
    /\ \A f \in (DOMAIN args) \ fields : args[f] = prev.args[f]

\* x is a whole number of turns, 2 pi k.
WholeTurns(x) == x % TwoPi = 0

\* The two calls differ by whole turns of phase_shallow and phase_deep only.
PhaseTurnsApart ==
    /\ SameBut({"phase_shallow", "phase_deep"})
    /\ WholeTurns(args.phase_shallow - prev.args.phase_shallow)
    /\ WholeTurns(args.phase_deep - prev.args.phase_deep)

\* C24 (as claimed): shifting phase_shallow or phase_deep by 2 pi k leaves the
\* results of hatch_phase_method, keery_method and mccallum_method, and the
\* value of calculate_phase_shift, unchanged.
C24_PhaseModuloTurn ==
    (PhaseTurnsApart
       /\ op \in {"hatch_phase_method", "keery_method", "mccallum_method",
                  "calculate_phase_shift"})
        => ret = prev.ret

\* C25: two calls of calculate_vflux_all_methods that differ only in the phases
\* have the same 'hatch_amplitude' and 'luce' entries; two that differ only in
\* the angular frequency the same 'hatch_amplitude'; two that differ only in
\* the amplitudes the same 'hatch_phase', which is a number also when an
\* amplitude is <= 0 and the four other entries are NaN.
C25_SingleSignalIndependence ==
    op = "calculate_vflux_all_methods"
        => /\ SameBut({"phase_shallow", "phase_deep"})
                => \A method \in {"hatch_amplitude", "luce"} :
                       /\ ret.flux_m_s[method] = prev.ret.flux_m_s[method]
                       /\ ret.flux_mm_day[method] = prev.ret.flux_mm_day[method]
           /\ SameBut({"angular_frequency"})
                => /\ ret.flux_m_s["hatch_amplitude"]
                        = prev.ret.flux_m_s["hatch_amplitude"]
                   /\ ret.flux_mm_day["hatch_amplitude"]
                        = prev.ret.flux_mm_day["hatch_amplitude"]
           /\ SameBut({"amplitude_shallow", "amplitude_deep"})
                => /\ ret.flux_m_s["hatch_phase"] = prev.ret.flux_m_s["hatch_phase"]
                   /\ ret.flux_mm_day["hatch_phase"]
                        = prev.ret.flux_mm_day["hatch_phase"]
           /\ ~PositiveAmplitudes
                => /\ ret.flux_m_s["hatch_phase"].kind = "num"
                   /\ \A method \in Methods \ {"hatch_phase"} :
                          IsNaN(ret.flux_m_s[method])

\* Going from amplitudes 3 and 1 to a non-positive one keeps a Hatch-Phase > 0.
C25_Witness ==
    /\ op = "calculate_vflux_all_methods"
    /\ SameBut({"amplitude_shallow", "amplitude_deep"})
    /\ prev.args.amplitude_shallow = 3 * Scale /\ prev.args.amplitude_deep = Scale
    /\ ~PositiveAmplitudes
    /\ ret.flux_m_s["hatch_phase"].v > 0
    /\ ret.flux_m_s["hatch_phase"] = prev.ret.flux_m_s["hatch_phase"]
    /\ ret.flux_m_s["mccallum"] # prev.ret.flux_m_s["mccallum"]
\* C29 (as claimed): for all finite phase_shallow and phase_deep the loops of
\* calculate_phase_shift, hatch_phase_method, keery_method and mccallum_method
\* terminate, and the value they leave differs from phase_deep - phase_shallow
\* by a whole number of turns.
C29_LoopsTerminate ==
    <>(op = "normalized" /\ WholeTurns(ret.v - prev.raw))
\* What calculate_vflux_all_methods returns for the pair of thread w alone.
AloneResult(w) ==
    calculate_vflux_all_methods(args[w].amplitude_shallow, args[w].amplitude_deep,
                                args[w].phase_shallow, args[w].phase_deep,
                                args[w].depth_difference,
                                args[w].thermal_conductivity,
                                args[w].heat_capacity_sediment,
                                args[w].heat_capacity_water,
                                args[w].angular_frequency)

\* C22: for sensor pairs evaluated concurrently, in any interleaving and any
\* order of the five methods, every pair's result equals the result of
\* evaluating that pair alone, and a call repeated with the same inputs
\* returns the same result.
C22_StatelessUnderConcurrency ==
    \A w \in Workers :
        op[w] = "returned"
            => /\ ret[w].out = AloneResult(w)
               /\ prev[w] # NoCall => ret[w].out = prev[w].ret

\* Thread 2 has repeated its call while thread 1, on a medium of another
\* diffusivity, is in the middle of its own.
C22_Witness ==
    /\ op[2] = "returned"
    /\ prev[2] # NoCall
    /\ ret[2].out = prev[2].ret
    /\ op[1] = "results"
    /\ ret[1].alpha # ret[2].alpha
    /\ DOMAIN ret[1].results = {"keery", "luce"}
\* curve_fit has returned the parameter vector that reproduces the series with
\* the phase nearest to the phase of p0.
ConvergedNearP0 ==
    /\ curve_fit_outcome(1).kind = "popt"
    /\ 2 * Abs(curve_fit_outcome(1).popt[4] - phi_init) <= Pi

\* C21 (as claimed, for the calls in which curve_fit goes from p0 to the
\* nearest parameter vector that reproduces the series): for a noise-free
\* series A + B sin(omega t + phi), B > 0, with the diurnal omega,
\* fit_harmonic_model returns mean, amplitude and omega each within 10% of
\* A, B and omega.
C21_FitRecoversParameters ==
    (op = "fit_harmonic_model" /\ ConvergedNearP0
       /\ args.amplitude_shallow > 0 /\ args.omega = omega_daily)
        => /\ ret # None
           /\ WithinTenPercent(ret.mean, args.mean_shallow)
           /\ WithinTenPercent(ret.amplitude, args.amplitude_shallow)
           /\ WithinTenPercent(ret.omega, args.omega)
====
